---- MODULE Spec2Model ----
(***************************************************************************)
(* Model of the pulse_lib timeline compiler: the pulse_data event list     *)
(* (data_pulse.py), the segment wrappers (segment_pulse.py,                *)
(* segment_base.py) and the Qblox DC compensation (pulsar_uploader.py).    *)
(*                                                                         *)
(* Times are whole nanoseconds and voltages whole millivolts, so that a    *)
(* value is "near zero" (|x| < 1e-9) exactly when it is 0.                 *)
(***************************************************************************)
EXTENDS Integers, Sequences, FiniteSets, TLC

VARIABLES
    data,           \* the pulse_data object of the channel
    lastOp,         \* name of the operation executed last
    result,         \* value returned (or exception raised) by the last operation
    deltas_before,  \* pulse_deltas at entry of the last reading operation
    n_ops,          \* number of additions made (bounds the run)
    awg_channels,   \* configuration: awg_channel per channel name
    channels,       \* UploadAggregator.channels: ChannelInfo per channel name
    job,            \* the Job being built
    upload_info,    \* job.upload_info
    segments,       \* UploadAggregator.segments: SegmentRenderInfo per segment
    marker_channel, \* the marker_channel configuration of the marker examined
    marker_pulses,  \* my_marker_data of the marker channel, per segment of the job
    markers,        \* the marker events computed last
    pulse_elements, \* the element list handed to the InterpolationCompiler
    compiler,       \* the InterpolationCompiler constructed from it
    build_pc,       \* position of UploadAggregator.build
    n_awg,          \* number of AWG channels build has added
    seg_data,       \* segment.data per channel: the channel's own pulse_data
    reference_channels, \* segment.reference_channels per channel
    render_mode,    \* segment.render_mode per channel
    _pulse_data_all, \* segment._pulse_data_all per channel: the memoized composition
    seg_result,     \* the pulse_data returned by the superposition executed last
    n_seg_ops,      \* number of additions made to the segments (bounds the run)
    objects,        \* the pulse_data objects alive, by name: fields and list references
    heap,           \* the Python lists and list elements the objects refer to
    obj_op,         \* the operation executed last on the objects
    uploader_jobs,  \* PulsarUploader.jobs: the Job objects in the list
    sequencer,      \* the call of the sequencer in progress, and its last outcome
    waveform_cache, \* parent_data.waveform_cache and the _cache_id of the timeline
    seg_channel     \* a segment channel with its data elements and its _has_data

(***************************************************************************)
(* Bounds                                                                  *)
(***************************************************************************)
MaxTime == 2        \* largest time used in an addition
MaxOps == 2         \* largest number of additions in one run

\* np.inf: the time of a delta that lasts till the end of the segment
Inf == 1000
\* Python's None (an optional time argument that is absent)
None == 0 - 999

\* the inputs of the additions
Starts == 0..(MaxTime - 1)
Amplitudes == {1}
Waits == {0 - 1, 1}

Abs(x) == IF x < 0 THEN 0 - x ELSE x
Max(a, b) == IF a >= b THEN a ELSE b

SeqToSet(s) == {s[i] : i \in DOMAIN s}

(***************************************************************************)
(* pulse_delta                                                             *)
(***************************************************************************)
pulse_delta(t, s, r) == [time |-> t, step |-> s, ramp |-> r]

\* pulse_delta.__add__
delta_add(a, b) == pulse_delta(a.time, a.step + b.step, a.ramp + b.ramp)

\* pulse_delta.is_near_zero: integers are below 1e-9 in magnitude iff they are 0
is_near_zero(d) == Abs(d.step) < 1 /\ Abs(d.ramp) < 1

\* IQ_data_single and Chirp: the fields the timeline uses
pulse_element(start, stop, amp) == [start |-> start, stop |-> stop, amplitude |-> amp]

\* custom_pulse_element
custom_pulse_element(start, stop, amp) ==
    [start |-> start, stop |-> stop, amplitude |-> amp, scaling |-> 1]

\* PhaseShift
PhaseShift(t, p) == [time |-> t, phase_shift |-> p]

phase_add(a, b) == PhaseShift(a.time, a.phase_shift + b.phase_shift)

phase_is_near_zero(p) == p.phase_shift = 0

\* OffsetRamp
OffsetRamp(start, stop, v_start, v_stop) ==
    [start |-> start, stop |-> stop, v_start |-> v_start, v_stop |-> v_stop]

(***************************************************************************)
(* pulse_data                                                              *)
(***************************************************************************)
\* pulse_data.__init__
pulse_data_init ==
    [pulse_deltas |-> <<>>, MW_pulse_data |-> <<>>, custom_pulse_data |-> <<>>,
     phase_shifts |-> <<>>, chirp_data |-> <<>>,
     start_time |-> 0, end_time |-> 0,
     hres |-> FALSE,
     has_data |-> FALSE, consolidated |-> FALSE, preprocessed |-> FALSE,
     preprocessed_sample_rate |-> None,
     phase_shifts_consolidated |-> FALSE, breaks_processed |-> FALSE,
     times |-> <<>>, intervals |-> <<>>, amplitudes |-> <<>>, amplitudes_end |-> <<>>]

\* pulse_data.update_end_time
update_end_time(d, t) ==
    IF t # Inf /\ t > d.end_time THEN [d EXCEPT !.end_time = t] ELSE d

\* pulse_data.add_delta
add_delta(d, delta) ==
    update_end_time(
        IF ~is_near_zero(delta)
        THEN [d EXCEPT !.pulse_deltas = Append(@, delta),
                       !.consolidated = FALSE,
                       !.has_data = TRUE]
        ELSE d,
        delta.time)

\* pulse_data.add_MW_data
add_MW_data(d, mw) ==
    update_end_time(
        IF mw.amplitude # 0
        THEN [d EXCEPT !.MW_pulse_data = Append(@, mw), !.has_data = TRUE]
        ELSE d,
        mw.stop)

\* pulse_data.add_chirp
add_chirp(d, chirp) ==
    update_end_time(
        [d EXCEPT !.chirp_data = Append(@, chirp), !.has_data = TRUE],
        chirp.stop)

\* pulse_data.add_custom_pulse_data
add_custom_pulse_data(d, custom_pulse) ==
    update_end_time(
        [d EXCEPT !.custom_pulse_data = Append(@, custom_pulse), !.has_data = TRUE],
        custom_pulse.stop)

\* pulse_data.add_phase_shift
add_phase_shift(d, phase_shift) ==
    update_end_time(
        IF ~phase_is_near_zero(phase_shift)
        THEN [d EXCEPT !.phase_shifts_consolidated = FALSE,
                       !.has_data = TRUE,
                       !.phase_shifts = Append(@, phase_shift)]
        ELSE d,
        phase_shift.time)

\* pulse_data.reset_time
pd_reset_time(d, time) ==
    IF time = None
    THEN [d EXCEPT !.start_time = d.end_time]
    ELSE [update_end_time(d, time) EXCEPT !.start_time = time]

\* pulse_data.wait
pd_wait(d, time) == [d EXCEPT !.end_time = @ + time]

\* shift_start_stop
shift_start_stop(s, delta) ==
    [i \in DOMAIN s |-> [s[i] EXCEPT !.start = @ + delta, !.stop = @ + delta]]

\* shift_time (np.inf + delta is np.inf)
shift_time(s, delta) ==
    [i \in DOMAIN s |-> [s[i] EXCEPT !.time = IF @ = Inf THEN Inf ELSE @ + delta]]

\* pulse_data.add_data
add_data(d, other, time_arg) ==
    LET time == IF time_arg = None THEN d.start_time
                ELSE IF time_arg = 0 - 1 THEN d.end_time
                ELSE time_arg
        merged ==
            IF other.has_data
            THEN [d EXCEPT
                    !.pulse_deltas = @ \o shift_time(other.pulse_deltas, time),
                    !.MW_pulse_data = @ \o shift_start_stop(other.MW_pulse_data, time),
                    !.custom_pulse_data = @ \o shift_start_stop(other.custom_pulse_data, time),
                    !.phase_shifts = @ \o shift_time(other.phase_shifts, time),
                    !.chirp_data = @ \o shift_start_stop(other.chirp_data, time),
                    !.has_data = TRUE,
                    !.consolidated = FALSE,
                    !.phase_shifts_consolidated = FALSE]
            ELSE d
    IN  update_end_time(merged, time + other.end_time)

(***************************************************************************)
(* Consolidation                                                           *)
(***************************************************************************)
\* list.sort(key=lambda p: p.time) is stable: equal times keep their order
RECURSIVE insert_by_time(_, _)
insert_by_time(s, d) ==
    IF s = <<>> THEN <<d>>
    ELSE IF Head(s).time <= d.time THEN <<Head(s)>> \o insert_by_time(Tail(s), d)
    ELSE <<d>> \o s

RECURSIVE sort_by_time(_)
sort_by_time(s) ==
    IF s = <<>> THEN <<>>
    ELSE insert_by_time(sort_by_time(SubSeq(s, 1, Len(s) - 1)), s[Len(s)])

\* the scan of _consolidate with the near-zero test made on the incoming delta
\* instead of on the merged one
RECURSIVE merge_deltas_filter_first(_, _, _)
merge_deltas_filter_first(rest, last, new_deltas) ==
    IF rest = <<>>
    THEN Append(new_deltas, last)
    ELSE LET delta == Head(rest) IN
         IF is_near_zero(delta)
         THEN merge_deltas_filter_first(Tail(rest), last, new_deltas)
         ELSE IF delta.time = last.time
         THEN merge_deltas_filter_first(Tail(rest), delta_add(last, delta), new_deltas)
         ELSE merge_deltas_filter_first(Tail(rest), delta, Append(new_deltas, last))

\* the scan of _consolidate: the loop over pulse_deltas[1:] and the final append
RECURSIVE merge_deltas(_, _, _)
merge_deltas(rest, last, new_deltas) ==
    IF rest = <<>>
    THEN IF ~is_near_zero(last) THEN Append(new_deltas, last) ELSE new_deltas
    ELSE LET delta == Head(rest) IN
         IF delta.time = last.time
         THEN merge_deltas(Tail(rest), delta_add(last, delta), new_deltas)
         ELSE merge_deltas(Tail(rest), delta,
                           IF ~is_near_zero(last) THEN Append(new_deltas, last)
                           ELSE new_deltas)

\* the body of _consolidate with the sort left out
consolidate_deltas_unsorted(deltas) ==
    merge_deltas(Tail(deltas), Head(deltas), <<>>)

\* the body of _consolidate for more than one delta: sort, merge, drop
consolidate_deltas(deltas) ==
    LET sorted == sort_by_time(deltas)
    IN  merge_deltas(Tail(sorted), Head(sorted), <<>>)

\* _consolidate raises when exactly one delta is stored
consolidate_raises(d) == ~d.consolidated /\ Len(d.pulse_deltas) = 1

\* pulse_data._consolidate (when it does not raise)
consolidate(d) ==
    IF d.consolidated THEN d
    ELSE [d EXCEPT
            !.pulse_deltas = IF Len(@) > 1 THEN consolidate_deltas(@) ELSE @,
            !.consolidated = TRUE,
            !.breaks_processed = FALSE,
            !.preprocessed = FALSE]

\* the scan of _consolidate_phase_shifts
RECURSIVE merge_phase_shifts(_, _, _)
merge_phase_shifts(rest, last, new_shifts) ==
    IF rest = <<>>
    THEN IF ~phase_is_near_zero(last) THEN Append(new_shifts, last) ELSE new_shifts
    ELSE LET phase_shift == Head(rest) IN
         IF phase_shift.time = last.time
         THEN merge_phase_shifts(Tail(rest), phase_add(last, phase_shift), new_shifts)
         ELSE merge_phase_shifts(Tail(rest), phase_shift,
                                 IF ~phase_is_near_zero(last) THEN Append(new_shifts, last)
                                 ELSE new_shifts)

\* pulse_data._consolidate_phase_shifts
consolidate_phase_shifts(d) ==
    IF d.phase_shifts_consolidated THEN d
    ELSE [d EXCEPT
            !.phase_shifts =
                IF Len(@) > 0
                THEN LET sorted == sort_by_time(@)
                     IN  merge_phase_shifts(Tail(sorted), Head(sorted), <<>>)
                ELSE @,
            !.phase_shifts_consolidated = TRUE]

(***************************************************************************)
(* Pre-processing, ramp breaking, integration, element extraction          *)
(***************************************************************************)
\* the arrays computed by _pre_process for a sorted delta list (hres is off)
pre_process_arrays(deltas, end_time) ==
    LET n == Len(deltas)
        times == [i \in 1..n |->
                    IF i = n /\ deltas[i].time = Inf THEN end_time ELSE deltas[i].time]
        intervals == [i \in 1..n |-> IF i < n THEN times[i + 1] - times[i] ELSE 0]
        ramps[i \in 0..n] == IF i = 0 THEN 0 ELSE ramps[i - 1] + deltas[i].ramp
        steps[i \in 0..n] == IF i = 0 THEN 0 ELSE steps[i - 1] + deltas[i].step
        slopes[i \in 0..n] ==
            IF i <= 1 THEN 0 ELSE slopes[i - 1] + ramps[i - 1] * intervals[i - 1]
        amplitudes == [i \in 1..n |-> slopes[i] + steps[i]]
        amplitudes_end == [i \in 1..n |->
                    IF i < n THEN amplitudes[i + 1] - deltas[i + 1].step ELSE 0]
    IN  [times |-> times, intervals |-> intervals,
         amplitudes |-> amplitudes, amplitudes_end |-> amplitudes_end]

\* pulse_data._pre_process without the early return on _preprocessed
pre_process_always(d) ==
    LET c == consolidate(d)
        a == pre_process_arrays(c.pulse_deltas, c.end_time)
    IN  [c EXCEPT !.times = a.times, !.intervals = a.intervals,
                  !.amplitudes = a.amplitudes, !.amplitudes_end = a.amplitudes_end,
                  !.preprocessed = TRUE]

\* pulse_data._pre_process (when _consolidate does not raise)
pre_process(d) ==
    LET c == consolidate(d)
    IN  IF c.preprocessed THEN c ELSE pre_process_always(c)

\* start and stop times of the elements handed to _break_ramps
element_times(d) ==
    {d.phase_shifts[i].time : i \in DOMAIN d.phase_shifts}
    \cup {d.MW_pulse_data[i].start : i \in DOMAIN d.MW_pulse_data}
    \cup {d.MW_pulse_data[i].stop : i \in DOMAIN d.MW_pulse_data}
    \cup {d.chirp_data[i].start : i \in DOMAIN d.chirp_data}
    \cup {d.chirp_data[i].stop : i \in DOMAIN d.chirp_data}
    \cup {d.custom_pulse_data[i].start : i \in DOMAIN d.custom_pulse_data}
    \cup {d.custom_pulse_data[i].stop : i \in DOMAIN d.custom_pulse_data}

\* the zero deltas appended for a set of break times, in ascending order
RECURSIVE break_deltas(_)
break_deltas(breaks) ==
    IF breaks = {} THEN <<>>
    ELSE LET t == CHOOSE x \in breaks : \A y \in breaks : x <= y
         IN  <<pulse_delta(t, 0, 0)>> \o break_deltas(breaks \ {t})

\* pulse_data._break_ramps without the early return on _breaks_processed
break_ramps_always(d) ==
    LET breaks == element_times(d) \ {d.pulse_deltas[i].time : i \in DOMAIN d.pulse_deltas}
    IN  IF breaks = {}
        THEN [d EXCEPT !.breaks_processed = TRUE]
        ELSE [d EXCEPT !.pulse_deltas = sort_by_time(@ \o break_deltas(breaks)),
                       !.preprocessed = FALSE,
                       !.breaks_processed = TRUE]

\* pulse_data._break_ramps
break_ramps(d) ==
    IF d.breaks_processed THEN d ELSE break_ramps_always(d)

\* sum of the samples of a custom pulse rendered at 1 GSa/s; the sampling
\* function is the flat pulse: amplitude on every sample of the duration
custom_pulse_sum(p) == p.amplitude * (p.stop - p.start) * p.scaling

RECURSIVE custom_pulses_sum(_)
custom_pulses_sum(s) ==
    IF s = <<>> THEN 0 ELSE custom_pulse_sum(Head(s)) + custom_pulses_sum(Tail(s))

\* np.dot(amplitudes[:-1] + amplitudes_end[:-1], intervals[:-1])
RECURSIVE trapezoid_dot(_, _)
trapezoid_dot(d, n) ==
    IF n <= 0 THEN 0
    ELSE trapezoid_dot(d, n - 1)
         + (d.amplitudes[n] + d.amplitudes_end[n]) * d.intervals[n]

\* 2 * the value of integrate_waveform in mV.ns for a pre-processed timeline
\* (twice, so that the trapezoid factor 0.5 stays exact in whole numbers)
integrated_value2(d) ==
    (IF Len(d.pulse_deltas) > 0 THEN trapezoid_dot(d, Len(d.times) - 1) ELSE 0)
    + 2 * custom_pulses_sum(d.custom_pulse_data)

\* an entry of the list returned by get_data_elements
element(order, start, stop, a, b) ==
    [order |-> order, start |-> start, stop |-> stop, a |-> a, b |-> b]

\* elements.sort(key=lambda p: (p.start, p.order, p.stop))
element_le(x, y) ==
    \/ x.start < y.start
    \/ x.start = y.start /\ x.order < y.order
    \/ x.start = y.start /\ x.order = y.order /\ x.stop <= y.stop

RECURSIVE insert_element(_, _)
insert_element(s, e) ==
    IF s = <<>> THEN <<e>>
    ELSE IF element_le(Head(s), e) THEN <<Head(s)>> \o insert_element(Tail(s), e)
    ELSE <<e>> \o s

RECURSIVE sort_elements(_)
sort_elements(s) ==
    IF s = <<>> THEN <<>>
    ELSE insert_element(sort_elements(SubSeq(s, 1, Len(s) - 1)), s[Len(s)])

\* the list built by get_data_elements from a pre-processed timeline
data_elements(d) ==
    sort_elements(
        [i \in DOMAIN d.phase_shifts |->
            element(1, d.phase_shifts[i].time, d.phase_shifts[i].time,
                    d.phase_shifts[i].phase_shift, 0)]
        \o [i \in DOMAIN d.MW_pulse_data |->
            element(2, d.MW_pulse_data[i].start, d.MW_pulse_data[i].stop,
                    d.MW_pulse_data[i].amplitude, 0)]
        \o [i \in DOMAIN d.chirp_data |->
            element(3, d.chirp_data[i].start, d.chirp_data[i].stop,
                    d.chirp_data[i].amplitude, 0)]
        \o [i \in DOMAIN d.custom_pulse_data |->
            element(4, d.custom_pulse_data[i].start, d.custom_pulse_data[i].stop,
                    d.custom_pulse_data[i].amplitude, 0)]
        \o [i \in DOMAIN d.times |->
            element(5, d.times[i], d.times[i] + d.intervals[i],
                    d.amplitudes[i], d.amplitudes_end[i])])

\* the timeline after get_data_elements (when _consolidate does not raise)
get_data_elements(d, do_break) ==
    LET c == consolidate(consolidate_phase_shifts(d))
    IN  pre_process(IF do_break THEN break_ramps(c) ELSE c)

(***************************************************************************)
(* segment_pulse / segment_base: the operations of one channel             *)
(***************************************************************************)
Returned(v, e) == [raised |-> FALSE, value |-> v, elements |-> e]
Raised == [raised |-> TRUE, value |-> 0, elements |-> <<>>]

\* no superposition was returned by the last operation
NoResult == [returned |-> FALSE]

tl_vars == <<data, lastOp, result, deltas_before, n_ops>>
ip_vars == <<pulse_elements, compiler>>
obj_vars == <<objects, heap, obj_op>>
up_vars == <<uploader_jobs, sequencer>>
cache_vars == <<waveform_cache, seg_channel>>
other_vars == <<obj_vars, up_vars, cache_vars>>
agg_vars == <<awg_channels, channels, job, upload_info, segments, build_pc, n_awg,
              marker_channel, marker_pulses, markers, ip_vars>>
comp_vars == <<agg_vars, other_vars>>
seg_vars == <<seg_data, reference_channels, render_mode, _pulse_data_all,
              seg_result, n_seg_ops>>
vars == <<tl_vars, comp_vars, seg_vars>>

\* the timeline of a run that is about another component
TimelineIdle ==
    /\ data = pulse_data_init
    /\ lastOp = "init"
    /\ result = Returned(0, <<>>)
    /\ deltas_before = <<>>
    /\ n_ops = 0

\* no marker is examined
MarkersIdle ==
    /\ marker_channel = <<>>
    /\ marker_pulses = <<>>
    /\ markers = <<>>

\* no InterpolationCompiler has been constructed
InterpolationIdle ==
    /\ pulse_elements = <<>>
    /\ compiler = <<>>

\* no pulse_data object is examined by reference
ObjectsIdle ==
    /\ objects = <<>>
    /\ heap = <<>>
    /\ obj_op = <<>>

\* no sequencer has uploaded anything
SequencerIdle ==
    /\ uploader_jobs = <<>>
    /\ sequencer = <<>>

\* no waveform is cached and no segment is asked for its data
CacheIdle ==
    /\ waveform_cache = <<>>
    /\ seg_channel = <<>>

\* the components a run is not about
OthersIdle == ObjectsIdle /\ SequencerIdle /\ CacheIdle

\* the uploader of a run that is about another component
UploaderIdle ==
    /\ awg_channels = <<>>
    /\ channels = <<>>
    /\ job = <<>>
    /\ upload_info = <<>>
    /\ segments = <<>>
    /\ build_pc = "idle"
    /\ n_awg = 0
    /\ MarkersIdle
    /\ InterpolationIdle
    /\ OthersIdle

\* the segments of a run that is about another component
SegmentsIdle ==
    /\ seg_data = <<>>
    /\ reference_channels = <<>>
    /\ render_mode = <<>>
    /\ _pulse_data_all = <<>>
    /\ seg_result = NoResult
    /\ n_seg_ops = 0

\* segment_pulse.add_block on the pulse_data object
seg_add_block(d, start, stop, amplitude) ==
    add_delta(
        add_delta(d, pulse_delta(start + d.start_time, amplitude, 0)),
        pulse_delta(IF stop # 0 - 1 THEN stop + d.start_time ELSE Inf, 0 - amplitude, 0))

\* segment_pulse.add_ramp_ss on the pulse_data object; the inputs are those
\* whose slope is a whole number of mV/ns
seg_add_ramp_ss(d, start, stop, start_amplitude, stop_amplitude, keep_amplitude) ==
    IF start # stop
    THEN LET ramp == (stop_amplitude - start_amplitude) \div (stop - start)
             first == add_delta(d, pulse_delta(start + d.start_time, start_amplitude, ramp))
         IN  IF keep_amplitude
             THEN add_delta(
                      add_delta(first, pulse_delta(stop + d.start_time, 0, 0 - ramp)),
                      pulse_delta(Inf, 0 - stop_amplitude, 0))
             ELSE add_delta(first,
                      pulse_delta(stop + d.start_time, 0 - stop_amplitude, 0 - ramp))
    ELSE IF keep_amplitude
    THEN add_delta(
             add_delta(d, pulse_delta(stop + d.start_time, stop_amplitude, 0)),
             pulse_delta(Inf, 0 - stop_amplitude, 0))
    ELSE update_end_time(d, stop + d.start_time)

\* the timelines handed to add and append
OtherData ==
    { seg_add_block(pulse_data_init, 0, 1, 1),
      add_MW_data(pulse_data_init, pulse_element(0, 1, 1)),
      pd_wait(pulse_data_init, 1) }

\* an addition: the new timeline stays within the bounds of the run
Added(new, op) ==
    /\ n_ops < MaxOps
    /\ new.end_time <= MaxTime
    /\ data' = new
    /\ lastOp' = op
    /\ result' = Returned(0, <<>>)
    /\ deltas_before' = <<>>
    /\ n_ops' = n_ops + 1
    /\ UNCHANGED <<comp_vars, seg_vars>>

add_block(start, stop, amplitude) ==
    Added(seg_add_block(data, start, stop, amplitude), "add_block")

add_ramp_ss(start, stop, v0, v1, keep) ==
    /\ start # stop => (v1 - v0) % (stop - start) = 0
    /\ Added(seg_add_ramp_ss(data, start, stop, v0, v1, keep), "add_ramp_ss")

\* segment_pulse.add_sin
add_sin(start, stop, amp) ==
    Added(add_MW_data(data, pulse_element(start + data.start_time,
                                          stop + data.start_time, amp)), "add_sin")

\* segment_pulse.add_custom_pulse
add_custom_pulse(start, stop, amplitude) ==
    Added(add_custom_pulse_data(data,
            custom_pulse_element(start + data.start_time,
                                 stop + data.start_time, amplitude)), "add_custom_pulse")

\* pulse_data.add_chirp called by the IQ segment
do_add_chirp(start, stop, amp) ==
    Added(add_chirp(data, pulse_element(start + data.start_time,
                                        stop + data.start_time, amp)), "add_chirp")

\* pulse_data.add_phase_shift called by the IQ segment
do_add_phase_shift(t, phase) ==
    Added(add_phase_shift(data, PhaseShift(t + data.start_time, phase)), "add_phase_shift")

\* segment_pulse.wait
wait(time) == Added(pd_wait(data, time), "wait")

\* segment_base.reset_time
reset_time(time) == Added(pd_reset_time(data, time), "reset_time")

\* segment_base.add and segment_base.append (time = -1)
add(other, time) == Added(add_data(data, other, time), "add")

\* a direct call of pulse_data._consolidate (as made by __copy__ and __mul__)
do_consolidate ==
    /\ lastOp' = "consolidate"
    /\ deltas_before' = data.pulse_deltas
    /\ IF consolidate_raises(data)
       THEN data' = data /\ result' = Raised
       ELSE data' = consolidate(data) /\ result' = Returned(0, <<>>)
    /\ UNCHANGED <<n_ops, comp_vars, seg_vars>>

\* segment_base.integrate -> pulse_data.integrate_waveform
integrate ==
    /\ lastOp' = "integrate"
    /\ deltas_before' = data.pulse_deltas
    /\ IF consolidate_raises(data)
       THEN data' = data /\ result' = Raised
       ELSE LET p == pre_process(data)
            IN  data' = p /\ result' = Returned(integrated_value2(p), <<>>)
    /\ UNCHANGED <<n_ops, comp_vars, seg_vars>>

\* pulse_data.get_data_elements
do_get_data_elements(do_break) ==
    /\ lastOp' = (IF do_break THEN "get_data_elements_break" ELSE "get_data_elements")
    /\ deltas_before' = data.pulse_deltas
    /\ IF consolidate_raises(data)
       THEN data' = consolidate_phase_shifts(data) /\ result' = Raised
       ELSE LET p == get_data_elements(data, do_break)
            IN  data' = p /\ result' = Returned(0, data_elements(p))
    /\ UNCHANGED <<n_ops, comp_vars, seg_vars>>

Init == TimelineIdle /\ UploaderIdle /\ SegmentsIdle

Next ==
    \/ \E start \in Starts, stop \in {0 - 1} \cup (1..MaxTime), amplitude \in Amplitudes :
        /\ stop # 0 - 1 => stop > start
        /\ add_block(start, stop, amplitude)
    \/ \E stop \in {0, 1}, keep \in BOOLEAN : add_ramp_ss(0, stop, 0, 2, keep)
    \/ \E start \in Starts : add_sin(start, start + 1, 1)
    \/ \E start \in Starts : add_custom_pulse(start, start + 1, 1)
    \/ \E start \in Starts : do_add_chirp(start, start + 1, 1)
    \/ \E phase \in {0 - 1, 1} : do_add_phase_shift(1, phase)
    \/ \E time \in Waits : wait(time)
    \/ \E time \in {None, 1} : reset_time(time)
    \/ \E other \in OtherData, time \in {None, 0 - 1} : add(other, time)
    \/ do_consolidate
    \/ integrate
    \/ \E do_break \in BOOLEAN : do_get_data_elements(do_break)

Spec == Init /\ [][Next]_vars

(***************************************************************************)
(* Claims about one channel timeline                                       *)
(***************************************************************************)
\* C3: over any sequence of append-style operations (add_block, add_ramp_ss,
\* add_sin, custom pulse, phase shift, chirp, wait, reset_time, add/append)
\* end_time never decreases.
C3_EndTimeNeverDecreases == [][data'.end_time >= data.end_time]_vars

\* a step in which _consolidate was called and did run its pass
ConsolidationRan ==
    /\ lastOp' = "consolidate"
    /\ ~data.consolidated
    /\ ~consolidate_raises(data)

RECURSIVE SumOfSteps(_, _)
SumOfSteps(deltas, t) ==
    IF deltas = <<>> THEN 0
    ELSE (IF Head(deltas).time = t THEN Head(deltas).step ELSE 0)
         + SumOfSteps(Tail(deltas), t)

RECURSIVE SumOfRamps(_, _)
SumOfRamps(deltas, t) ==
    IF deltas = <<>> THEN 0
    ELSE (IF Head(deltas).time = t THEN Head(deltas).ramp ELSE 0)
         + SumOfRamps(Tail(deltas), t)

\* C4: directly after consolidation the delta list is sorted by strictly
\* increasing time, holds for each remaining time the sum of the steps and the
\* sum of the ramps of all deltas stored with that time, and contains no delta
\* whose step and ramp are both near zero.
C4_ConsolidatedDeltas ==
    [][ConsolidationRan =>
        LET old == data.pulse_deltas
            new == data'.pulse_deltas
        IN  /\ \A i \in 1..(Len(new) - 1) : new[i].time < new[i + 1].time
            /\ \A i \in DOMAIN new :
                /\ new[i].step = SumOfSteps(old, new[i].time)
                /\ new[i].ramp = SumOfRamps(old, new[i].time)
            /\ \A i \in DOMAIN new : ~(Abs(new[i].step) < 1 /\ Abs(new[i].ramp) < 1)
      ]_vars

\* a consolidation has merged two deltas of one time into a delta that stays
C4_Witness ==
    /\ lastOp = "consolidate"
    /\ ~result.raised
    /\ Len(deltas_before) = 4
    /\ Len(data.pulse_deltas) = 3

\* C5: consolidation is idempotent: a second _consolidate call leaves the delta
\* list of the first one, and so does a second run of the pass over that list.
C5_ConsolidateIdempotent ==
    [][ConsolidationRan =>
        /\ consolidate(data').pulse_deltas = data'.pulse_deltas
        /\ Len(data'.pulse_deltas) > 1 =>
              consolidate_deltas(data'.pulse_deltas) = data'.pulse_deltas
      ]_vars

\* a consolidation has dropped deltas that cancel and has kept others
C5_Witness ==
    /\ lastOp = "consolidate"
    /\ ~result.raised
    /\ Len(deltas_before) = 4
    /\ Len(data.pulse_deltas) = 2

\* C6: integrate() closes an open-ended delta at the end_time of the timeline
\* as it is at the time of the call: the value returned is the integral of the
\* stored deltas closed at the current end_time.
C6_IntegrateClosesAtEndTime ==
    (lastOp = "integrate" /\ ~result.raised) =>
        result.value = integrated_value2(pre_process_always(data))

\* start and stop times of the microwave pulses, chirps and custom pulses
PulseTimes ==
    {data.MW_pulse_data[i].start : i \in DOMAIN data.MW_pulse_data}
    \cup {data.MW_pulse_data[i].stop : i \in DOMAIN data.MW_pulse_data}
    \cup {data.chirp_data[i].start : i \in DOMAIN data.chirp_data}
    \cup {data.chirp_data[i].stop : i \in DOMAIN data.chirp_data}
    \cup {data.custom_pulse_data[i].start : i \in DOMAIN data.custom_pulse_data}
    \cup {data.custom_pulse_data[i].stop : i \in DOMAIN data.custom_pulse_data}

\* the OffsetRamps of the list returned last
ReturnedRamps == {e \in SeqToSet(result.elements) : e.order = 5}

\* C7: after any additions and reads, the OffsetRamps returned by
\* get_data_elements(break_ramps=True) are such that every start and stop time
\* of every microwave pulse, chirp and custom pulse on the timeline is an
\* OffsetRamp boundary, and none lies strictly inside a ramp.
C7_RampsBrokenAtPulses ==
    (lastOp = "get_data_elements_break" /\ ~result.raised /\ ReturnedRamps # {}) =>
        \A t \in PulseTimes :
            /\ \E r \in ReturnedRamps : r.start = t \/ r.stop = t
            /\ \A r \in ReturnedRamps : ~(r.start < t /\ t < r.stop)

(***************************************************************************)
(* The element loops of the uploader: add_awg_channel and add_qubit_channel *)
(* read the elements of the channel's timeline and hand each to the        *)
(* sequence builder, or raise when the channel cannot carry it.            *)
(***************************************************************************)

\* the loop of add_awg_channel over the entries, with the PhaseShift branch
\* passing over the element
awg_entries_raise_chirp_only(entries) ==
    \E i \in DOMAIN entries : entries[i].order = 3

\* the loop of add_awg_channel over the entries raises: a PhaseShift (order 1)
\* or a Chirp (order 3) is among them
awg_entries_raise(entries) ==
    \E i \in DOMAIN entries : entries[i].order \in {1, 3}

\* the loop of add_qubit_channel over the entries raises: an OffsetRamp
\* (order 5) or a custom pulse (order 4) is among them
qubit_entries_raise(entries) ==
    \E i \in DOMAIN entries : entries[i].order \in {5, 4}

\* the entries of a channel read and handed to the sequence builder
add_channel_entries(op, do_break) ==
    /\ lastOp' = op
    /\ deltas_before' = data.pulse_deltas
    /\ IF consolidate_raises(data)
       THEN data' = consolidate_phase_shifts(data) /\ result' = Raised
       ELSE LET p == get_data_elements(data, do_break)
                entries == data_elements(p)
                raises == IF op = "add_awg_channel"
                          THEN awg_entries_raise(entries)
                          ELSE qubit_entries_raise(entries)
            IN  /\ data' = p
                /\ result' = IF raises THEN Raised ELSE Returned(0, entries)
    /\ UNCHANGED <<n_ops, comp_vars, seg_vars>>

\* UploadAggregator.add_awg_channel: the loop over the entries of the channel
add_awg_channel_entries ==
    add_channel_entries("add_awg_channel", TRUE)

\* UploadAggregator.add_qubit_channel: the loop over the entries of the channel
add_qubit_channel_entries ==
    add_channel_entries("add_qubit_channel", FALSE)

\* the additions that make the elements of a channel, then the two loops
NextEntries ==
    \/ \E start \in Starts, stop \in {0 - 1} \cup (1..MaxTime), amplitude \in Amplitudes :
        /\ stop # 0 - 1 => stop > start
        /\ add_block(start, stop, amplitude)
    \/ \E stop \in {0, 1}, keep \in BOOLEAN : add_ramp_ss(0, stop, 0, 2, keep)
    \/ \E start \in Starts : add_sin(start, start + 1, 1)
    \/ \E start \in Starts : add_custom_pulse(start, start + 1, 1)
    \/ \E start \in Starts : do_add_chirp(start, start + 1, 1)
    \/ \E phase \in {0 - 1, 0, 1} : do_add_phase_shift(1, phase)
    \/ do_consolidate
    \/ add_awg_channel_entries
    \/ add_qubit_channel_entries

SpecEntries == Init /\ [][NextEntries]_vars

\* a step of the element loop of an AWG channel / of a qubit channel
AwgChannelStep == lastOp' = "add_awg_channel"
QubitChannelStep == lastOp' = "add_qubit_channel"

\* C14: compiling fails whenever a voltage step/ramp or a custom pulse has been
\* added to a qubit channel, or a phase shift or a chirp to an AWG channel
C14_UnsupportedElementsRejected ==
    [][/\ (QubitChannelStep /\ (data.pulse_deltas # <<>> \/ data.custom_pulse_data # <<>>))
            => result'.raised
       /\ (AwgChannelStep /\ (data.phase_shifts # <<>> \/ data.chirp_data # <<>>))
            => result'.raised]_vars

\* C14 as amended: compiling fails whenever the consolidated timeline of a
\* qubit channel holds a voltage step/ramp or a custom pulse, or that of an AWG
\* channel a phase shift or a chirp; steps and phase shifts that add up to
\* zero at their time are removed by the consolidation and are not reported
C14_ConsolidatedElementsRejected ==
    [][/\ (QubitChannelStep /\ (data'.pulse_deltas # <<>> \/ data'.custom_pulse_data # <<>>))
            => result'.raised
       /\ (AwgChannelStep /\ (data'.phase_shifts # <<>> \/ data'.chirp_data # <<>>))
            => result'.raised]_vars

\* an AWG channel with a phase shift and no chirp has been compiled, and the
\* compilation failed
C14_Witness ==
    /\ lastOp = "add_awg_channel"
    /\ data.phase_shifts # <<>>
    /\ data.chirp_data = <<>>
    /\ data.pulse_deltas = <<>>
    /\ result.raised

(***************************************************************************)
(* DC compensation (pulsar_uploader.py: UploadAggregator)                  *)
(*                                                                         *)
(* Integrals are in mV.ns and durations in ns: the factor 1e-9 of          *)
(* integrate_waveform and the factors 1e9 of _process_segments and         *)
(* add_awg_channel cancel.  Quotients are kept as exact fractions.         *)
(***************************************************************************)
MaxSegs == 2        \* largest number of segments of a job

\* PulsarConfig.ALIGNMENT: the hardware grid in ns
Grid == 4

RECURSIVE Gcd(_, _)
Gcd(a, b) == IF b = 0 THEN a ELSE Gcd(b, a % b)

\* the fraction n/d in lowest terms with a positive denominator
Rat(n, d) ==
    LET g == Gcd(Abs(n), Abs(d))
        sgn == IF d < 0 THEN 0 - 1 ELSE 1
    IN  [n |-> sgn * (n \div g), d |-> sgn * (d \div g)]

RatInt(i) == [n |-> i, d |-> 1]
RatMul(a, b) == Rat(a.n * b.n, a.d * b.d)
RatDiv(a, b) == Rat(a.n * b.d, a.d * b.n)
RatNeg(a) == [n |-> 0 - a.n, d |-> a.d]
RatLess(a, b) == a.n * b.d < b.n * a.d
RatLeq(a, b) == a.n * b.d <= b.n * a.d
\* math.ceil
RatCeil(a) == 0 - ((0 - a.n) \div a.d)

ChannelNames == {"P1", "P2"}
\* UploadAggregator.awg_voltage_channels, in the order build adds them
awg_voltage_channels == <<"P1", "P2">>

\* awg_channel: the configurations a channel is given
AwgChannelConfigs ==
    [attenuation : {RatInt(1), Rat(1, 2)},
     compensation_limits : {<<0, 0>>, <<0 - 50, 50>>, <<0 - 100, 50>>}]

\* the integral of one channel over one segment (seg_ch.integrate)
SegIntegrals == {0 - 10000, 300, 10000}

\* ChannelInfo as filled by UploadAggregator.__init__
ChannelInfo(channel) ==
    LET dc_min == RatMul(RatInt(channel.compensation_limits[1]), channel.attenuation)
        dc_max == RatMul(RatInt(channel.compensation_limits[2]), channel.attenuation)
    IN  [attenuation |-> channel.attenuation,
         dc_compensation_min |-> dc_min,
         dc_compensation_max |-> dc_max,
         dc_compensation |-> RatLess(dc_min, RatInt(0)) /\ RatLess(RatInt(0), dc_max),
         integral |-> 0]

\* SegmentRenderInfo: the start and the end of a segment in the job, in ns
SegmentRenderInfo(t_start, t_end) == [t_start |-> t_start, t_end |-> t_end]

\* JobUploadInfo()
JobUploadInfo == [dc_compensation_duration_ns |-> 0, dc_compensation_voltages |-> <<>>]

\* the integral of a channel after the loop of _integrate over the segments
RECURSIVE integrate_segments(_, _, _, _)
integrate_segments(info, sequence, name, iseg) ==
    IF iseg > Len(sequence) THEN info
    ELSE LET reset == IF iseg = 1 THEN [info EXCEPT !.integral = 0] ELSE info
             added == IF reset.dc_compensation
                      THEN [reset EXCEPT !.integral = @ + sequence[iseg][name]]
                      ELSE reset
         IN  integrate_segments(added, sequence, name, iseg + 1)

\* get_compensation_time with the limits of the two signs exchanged
get_compensation_time_swapped(channel_info) ==
    IF ~channel_info.dc_compensation THEN RatInt(0)
    ELSE IF channel_info.integral <= 0
    THEN RatDiv(RatInt(0 - channel_info.integral), channel_info.dc_compensation_min)
    ELSE RatDiv(RatInt(0 - channel_info.integral), channel_info.dc_compensation_max)

\* UploadAggregator.get_compensation_time
get_compensation_time(channel_info) ==
    IF ~channel_info.dc_compensation THEN RatInt(0)
    ELSE IF channel_info.integral <= 0
    THEN RatDiv(RatInt(0 - channel_info.integral), channel_info.dc_compensation_max)
    ELSE RatDiv(RatInt(0 - channel_info.integral), channel_info.dc_compensation_min)

\* get_max_compensation_time taking the shortest of the channels' times
get_min_compensation_time(chs) ==
    IF DOMAIN chs = {} THEN RatInt(0)
    ELSE LET all == {get_compensation_time(chs[c]) : c \in DOMAIN chs}
         IN  CHOOSE m \in all : \A t \in all : RatLeq(m, t)

\* UploadAggregator.get_max_compensation_time
get_max_compensation_time(chs) ==
    IF DOMAIN chs = {} THEN RatInt(0)
    ELSE LET all == {get_compensation_time(chs[c]) : c \in DOMAIN chs}
         IN  CHOOSE m \in all : \A t \in all : RatLeq(t, m)

\* PulsarConfig.ceil: round up to the hardware grid
PulsarConfig_ceil(value) == RatCeil(RatDiv(value, RatInt(Grid))) * Grid

\* the compensation voltage of add_awg_channel without the attenuation
compensation_voltage_mV_device(channel_info, compensation_ns) ==
    RatDiv(RatInt(0 - channel_info.integral), RatInt(compensation_ns))

\* compensation_voltage_mV of add_awg_channel (at AWG output level)
compensation_voltage_mV(channel_info, compensation_ns) ==
    RatDiv(RatDiv(RatInt(0 - channel_info.integral), RatInt(compensation_ns)),
           channel_info.attenuation)

\* the first lines of UploadAggregator.build for a new job
build(neutralize, sequence, total_times) ==
    /\ build_pc = "idle"
    /\ job' = [neutralize |-> neutralize, sequence |-> sequence,
               total_times |-> total_times, playback_time |-> 0]
    /\ upload_info' = JobUploadInfo
    /\ build_pc' = "integrate"
    /\ UNCHANGED <<awg_channels, channels, segments, n_awg, marker_channel, marker_pulses, markers,
                 ip_vars, tl_vars, seg_vars, other_vars>>

\* UploadAggregator._integrate
integrate_job ==
    /\ build_pc = "integrate"
    /\ channels' = IF ~job.neutralize THEN channels
                   ELSE [c \in DOMAIN channels |->
                            integrate_segments(channels[c], job.sequence, c, 1)]
    /\ build_pc' = "process_segments"
    /\ UNCHANGED <<awg_channels, job, upload_info, segments, n_awg, marker_channel, marker_pulses, markers,
                 ip_vars, tl_vars, seg_vars, other_vars>>

\* the loop of _process_segments with every segment placed at the start of
\* the job
RECURSIVE segment_render_infos_from_zero(_, _)
segment_render_infos_from_zero(total_times, t_start) ==
    IF total_times = <<>> THEN <<>>
    ELSE <<SegmentRenderInfo(t_start, t_start + Head(total_times))>>
             \o segment_render_infos_from_zero(Tail(total_times), t_start)

\* the loop of _process_segments over job.sequence: the SegmentRenderInfo of
\* the segments from t_start on, total_times being their get_total_time
RECURSIVE segment_render_infos(_, _)
segment_render_infos(total_times, t_start) ==
    IF total_times = <<>> THEN <<>>
    ELSE LET duration == Head(total_times)
             t_end == t_start + duration
             info == SegmentRenderInfo(t_start, t_end)
         IN  <<info>> \o segment_render_infos(Tail(total_times), info.t_end)

\* UploadAggregator._process_segments: the start and end of every segment,
\* the DC compensation duration and the playback time
process_segments ==
    /\ build_pc = "process_segments"
    /\ job.total_times # <<>>      \* segments[-1] of a job without segments raises
    /\ LET compensation_time_ns ==
               PulsarConfig_ceil(get_max_compensation_time(channels))
           infos == segment_render_infos(job.total_times, 0)
       IN  /\ segments' = infos
           /\ upload_info' = [upload_info EXCEPT !.dc_compensation_duration_ns =
                                  compensation_time_ns]
           /\ job' = [job EXCEPT !.playback_time =
                          infos[Len(infos)].t_end + compensation_time_ns]
    /\ build_pc' = "add_awg_channel"
    /\ UNCHANGED <<awg_channels, channels, n_awg, marker_channel, marker_pulses, markers,
                 ip_vars, tl_vars, seg_vars, other_vars>>

\* add_awg_channel giving every channel a compensation pulse, whether or not
\* the channel has compensation limits
add_awg_channel_always ==
    /\ build_pc = "add_awg_channel"
    /\ n_awg < Len(awg_voltage_channels)
    /\ LET channel_name == awg_voltage_channels[n_awg + 1]
           channel_info == channels[channel_name]
           compensation_ns == upload_info.dc_compensation_duration_ns
       IN  upload_info' =
             IF job.neutralize /\ compensation_ns > 0
             THEN [upload_info EXCEPT !.dc_compensation_voltages =
                     [c \in DOMAIN @ \cup {channel_name} |->
                        IF c = channel_name
                        THEN compensation_voltage_mV(channel_info, compensation_ns)
                        ELSE @[c]]]
             ELSE upload_info
    /\ n_awg' = n_awg + 1
    /\ build_pc' = IF n_awg + 1 = Len(awg_voltage_channels) THEN "done"
                   ELSE "add_awg_channel"
    /\ UNCHANGED <<awg_channels, channels, job, segments, marker_channel, marker_pulses, markers,
                 ip_vars, tl_vars, seg_vars, other_vars>>

\* UploadAggregator.add_awg_channel: the compensation pulse of the next channel
add_awg_channel ==
    /\ build_pc = "add_awg_channel"
    /\ n_awg < Len(awg_voltage_channels)
    /\ LET channel_name == awg_voltage_channels[n_awg + 1]
           channel_info == channels[channel_name]
           compensation_ns == upload_info.dc_compensation_duration_ns
       IN  upload_info' =
             IF job.neutralize /\ compensation_ns > 0 /\ channel_info.dc_compensation
             THEN [upload_info EXCEPT !.dc_compensation_voltages =
                     [c \in DOMAIN @ \cup {channel_name} |->
                        IF c = channel_name
                        THEN compensation_voltage_mV(channel_info, compensation_ns)
                        ELSE @[c]]]
             ELSE upload_info
    /\ n_awg' = n_awg + 1
    /\ build_pc' = IF n_awg + 1 = Len(awg_voltage_channels) THEN "done"
                   ELSE "add_awg_channel"
    /\ UNCHANGED <<awg_channels, channels, job, segments, marker_channel, marker_pulses, markers,
                 ip_vars, tl_vars, seg_vars, other_vars>>

\* the duration of every segment of the jobs whose compensation is examined
SegmentTime == 100

\* the sequences of segments of a job: per segment the integral of each channel
JobSequences ==
    UNION {[1..n -> [ChannelNames -> SegIntegrals]] : n \in 1..MaxSegs}

InitComp ==
    /\ TimelineIdle
    /\ SegmentsIdle
    /\ awg_channels \in [ChannelNames -> AwgChannelConfigs]
    /\ channels = [c \in ChannelNames |-> ChannelInfo(awg_channels[c])]
    /\ job = <<>>
    /\ upload_info = <<>>
    /\ segments = <<>>
    /\ build_pc = "idle"
    /\ n_awg = 0
    /\ MarkersIdle
    /\ InterpolationIdle
    /\ OthersIdle

NextComp ==
    \/ \E neutralize \in BOOLEAN, sequence \in JobSequences :
            build(neutralize, sequence, [i \in 1..Len(sequence) |-> SegmentTime])
    \/ integrate_job
    \/ process_segments
    \/ add_awg_channel

SpecComp == InitComp /\ [][NextComp]_vars

(***************************************************************************)
(* Claims about the DC compensation                                        *)
(***************************************************************************)
\* the integral of a channel accumulated over all segments of the job
RECURSIVE AccumulatedIntegral(_, _)
AccumulatedIntegral(sequence, name) ==
    IF sequence = <<>> THEN 0
    ELSE Head(sequence)[name] + AccumulatedIntegral(Tail(sequence), name)

\* the channels with configured compensation limits: min < 0 < max
Compensated(c) ==
    awg_channels[c].compensation_limits[1] < 0 /\ awg_channels[c].compensation_limits[2] > 0

\* the integral of the compensation block appended to a channel: the
\* device-level voltage (AWG level times attenuation) times the duration
CompensationBlockIntegral(c) ==
    IF c \in DOMAIN upload_info.dc_compensation_voltages
    THEN RatMul(RatMul(upload_info.dc_compensation_voltages[c], awg_channels[c].attenuation),
                RatInt(upload_info.dc_compensation_duration_ns))
    ELSE RatInt(0)

\* C1: for every channel with configured compensation limits, in a job built
\* with neutralization, the integral accumulated over all segments plus the
\* integral of the appended compensation block is 0.
C1_CompensationNeutralizes ==
    (build_pc = "done" /\ job.neutralize) =>
        \A c \in ChannelNames :
            Compensated(c) =>
                LET I == AccumulatedIntegral(job.sequence, c)
                    block == CompensationBlockIntegral(c)
                IN  I * block.d + block.n = 0

\* a job was built in which an attenuated channel got a compensation pulse
C1_Witness ==
    /\ build_pc = "done"
    /\ job.neutralize
    /\ "P1" \in DOMAIN upload_info.dc_compensation_voltages
    /\ awg_channels["P1"].attenuation = Rat(1, 2)
    /\ AccumulatedIntegral(job.sequence, "P1") = 10300

\* the duration in ns a compensated channel needs is at most T:
\* T >= -I/max when I <= 0 and T >= -I/min when I > 0, with the limits at
\* device level (limit times attenuation, a fraction n/d)
DurationSuffices(c, T) ==
    LET I == AccumulatedIntegral(job.sequence, c)
        att == awg_channels[c].attenuation
        lim == awg_channels[c].compensation_limits
    IN  IF I <= 0
        THEN T * lim[2] * att.n >= (0 - I) * att.d
        ELSE T * (0 - lim[1]) * att.n >= I * att.d

\* T is the least multiple of the grid that suffices for all compensated channels
LeastGridDuration(T) ==
    /\ T >= 0
    /\ T % Grid = 0
    /\ \A c \in ChannelNames : Compensated(c) => DurationSuffices(c, T)
    /\ T > 0 => \E c \in ChannelNames : Compensated(c) /\ ~DurationSuffices(c, T - Grid)

\* limits (-50, 50) at device level, I = +10000 mV.ns, no other compensated channel
ScenarioC ==
    /\ awg_channels["P1"] = [attenuation |-> RatInt(1), compensation_limits |-> <<0 - 50, 50>>]
    /\ ~Compensated("P2")
    /\ AccumulatedIntegral(job.sequence, "P1") = 10000

\* C2: the duration a compensated channel needs is -I/max when I <= 0 and
\* -I/min when I > 0; the compensation duration of the job is the largest of
\* these rounded up to the hardware grid; limits (-50, 50) with I = +10000
\* mV.ns give 200 ns.
C2_CompensationDuration ==
    (build_pc \in {"add_awg_channel", "done"} /\ job.neutralize) =>
        /\ LeastGridDuration(upload_info.dc_compensation_duration_ns)
        /\ ScenarioC => upload_info.dc_compensation_duration_ns = 200

\* the job of scenario C was processed; and a job whose duration was rounded up
C2_Witness ==
    /\ build_pc = "done"
    /\ job.neutralize
    /\ ScenarioC
    /\ upload_info.dc_compensation_duration_ns = 200
    /\ upload_info.dc_compensation_voltages["P1"] = RatInt(0 - 50)

\* C12: a channel without configured compensation limits never receives a
\* compensation pulse and never increases the compensation duration of the
\* job: a duration above 0 is needed, up to the grid, by a channel with limits.
C12_UncompensatedChannelsIgnored ==
    (build_pc \in {"add_awg_channel", "done"}) =>
        /\ \A c \in ChannelNames :
                ~Compensated(c) => c \notin DOMAIN upload_info.dc_compensation_voltages
        /\ upload_info.dc_compensation_duration_ns > 0 =>
                \E c \in ChannelNames :
                    /\ Compensated(c)
                    /\ ~DurationSuffices(c, upload_info.dc_compensation_duration_ns - Grid)

\* a job was built in which the channel without limits has the larger
\* integral and only the other channel got a compensation pulse
C12_Witness ==
    /\ build_pc = "done"
    /\ job.neutralize
    /\ ~Compensated("P1")
    /\ AccumulatedIntegral(job.sequence, "P1") = 20000
    /\ Compensated("P2")
    /\ AccumulatedIntegral(job.sequence, "P2") = 600
    /\ upload_info.dc_compensation_duration_ns = 12
    /\ DOMAIN upload_info.dc_compensation_voltages = {"P2"}

\* C25: the compensation voltage applied to a compensated channel, at AWG
\* output level, lies within the channel's configured limits [min, max],
\* whatever the integrals of the channels of the job are
C25_CompensationVoltageWithinLimits ==
    (build_pc \in {"add_awg_channel", "done"}) =>
        \A c \in DOMAIN upload_info.dc_compensation_voltages :
            LET v == upload_info.dc_compensation_voltages[c]
                lim == awg_channels[c].compensation_limits
            IN  /\ Compensated(c)
                /\ RatLeq(RatInt(lim[1]), v)
                /\ RatLeq(v, RatInt(lim[2]))

\* a job in which the attenuated channel with the larger integral is
\* compensated at its limit and the other channel within its limits
C25_Witness ==
    /\ build_pc = "done"
    /\ job.neutralize
    /\ awg_channels["P1"] = [attenuation |-> Rat(1, 2), compensation_limits |-> <<0 - 100, 50>>]
    /\ awg_channels["P2"] = [attenuation |-> RatInt(1), compensation_limits |-> <<0 - 50, 50>>]
    /\ AccumulatedIntegral(job.sequence, "P1") = 0 - 20000
    /\ AccumulatedIntegral(job.sequence, "P2") = 10300
    /\ upload_info.dc_compensation_voltages["P1"] = RatInt(50)
    /\ RatLess(RatInt(0 - 50), upload_info.dc_compensation_voltages["P2"])

(***************************************************************************)
(* The place of the segments in the job: UploadAggregator._process_segments *)
(* gives every segment of job.sequence its start and end.  The jobs of     *)
(* SpecSegments have segments of different durations on two channels with  *)
(* fixed compensation limits.                                              *)
(***************************************************************************)

\* seg.get_total_time(job.index) of a segment, in ns
TotalTimes == {0, 100, 250, 1000}

\* the durations of the segments of a job
JobTotalTimes == UNION {[1..n -> TotalTimes] : n \in 1..MaxSegs}

InitSegments ==
    /\ TimelineIdle
    /\ SegmentsIdle
    /\ awg_channels = [c \in ChannelNames |->
                          [attenuation |-> RatInt(1),
                           compensation_limits |-> IF c = "P1" THEN <<0 - 100, 50>>
                                                   ELSE <<0, 0>>]]
    /\ channels = [c \in ChannelNames |-> ChannelInfo(awg_channels[c])]
    /\ job = <<>>
    /\ upload_info = <<>>
    /\ segments = <<>>
    /\ build_pc = "idle"
    /\ n_awg = 0
    /\ MarkersIdle
    /\ InterpolationIdle
    /\ OthersIdle

NextSegments ==
    \/ \E neutralize \in BOOLEAN, total_times \in JobTotalTimes :
            build(neutralize,
                  [i \in 1..Len(total_times) |-> [c \in ChannelNames |-> 10000]],
                  total_times)
    \/ integrate_job
    \/ process_segments
    \/ add_awg_channel

SpecSegments == InitSegments /\ [][NextSegments]_vars

\* the sum of the first n durations, summed from the last of them backwards
RECURSIVE DurationOfFirst(_, _)
DurationOfFirst(total_times, n) ==
    IF n = 0 THEN 0 ELSE total_times[n] + DurationOfFirst(total_times, n - 1)

\* build has run _process_segments
SegmentsProcessed == build_pc \in {"add_awg_channel", "done"}

\* C13: in a compiled job the first segment starts at time 0 and every other
\* segment starts at the sum of the durations of all segments before it, which
\* is where the segment before it ends
C13_SegmentsBackToBack ==
    SegmentsProcessed =>
        /\ Len(segments) = Len(job.total_times)
        /\ segments[1].t_start = 0
        /\ \A i \in 1..Len(segments) :
              /\ segments[i].t_start = DurationOfFirst(job.total_times, i - 1)
              /\ segments[i].t_end = segments[i].t_start + job.total_times[i]
              /\ i > 1 => segments[i].t_start = segments[i - 1].t_end

\* a compiled job of two segments of different durations: the second segment
\* starts at the duration of the first
C13_Witness ==
    /\ build_pc = "done"
    /\ job.total_times = <<250, 100>>
    /\ segments = <<SegmentRenderInfo(0, 250), SegmentRenderInfo(250, 350)>>

(***************************************************************************)
(* Markers (pulsar_uploader.py: get_markers, get_markers_seq).  A marker   *)
(* event is a time with a value: +v switches the marker bit on, -v off.    *)
(* merge_markers (pulse_lib/uploader/uploader_funcs.py) is modelled from   *)
(* the description of the marker merge engine.                             *)
(***************************************************************************)
MaxMarkers == 2     \* largest number of marker pulses of a job

\* PulsarConfig.floor on whole nanoseconds
PulsarConfig_floor(value) == (value \div Grid) * Grid

marker_event(t, v) == [t |-> t, v |-> v]

\* sorted(events, key=time), stable
RECURSIVE insert_event(_, _)
insert_event(s, e) ==
    IF s = <<>> THEN <<e>>
    ELSE IF Head(s).t <= e.t THEN <<Head(s)>> \o insert_event(Tail(s), e)
    ELSE <<e>> \o s

RECURSIVE sort_events(_)
sort_events(s) ==
    IF s = <<>> THEN <<>>
    ELSE insert_event(sort_events(SubSeq(s, 1, Len(s) - 1)), s[Len(s)])

\* the scan of the sorted events with a signed counter: an on-period begins
\* when the counter leaves 0 and ends when it returns to 0
RECURSIVE scan_on_periods(_, _, _, _)
scan_on_periods(events, counter, start, periods) ==
    IF events = <<>> THEN periods
    ELSE LET e == Head(events)
             s == counter + e.v
         IN  IF counter = 0 /\ s > 0
             THEN scan_on_periods(Tail(events), s, e.t, periods)
             ELSE IF counter > 0 /\ s = 0
             THEN scan_on_periods(Tail(events), s, start,
                                  Append(periods, [start |-> start, stop |-> e.t]))
             ELSE scan_on_periods(Tail(events), s, start, periods)

\* debouncing that joins on-periods only when they touch
RECURSIVE debounce_touching(_, _, _)
debounce_touching(periods, min_off_ns, merged) ==
    IF periods = <<>> THEN merged
    ELSE LET p == Head(periods)
             n == Len(merged)
         IN  IF n > 0 /\ p.start - merged[n].stop <= 0
             THEN debounce_touching(Tail(periods), min_off_ns,
                                    [merged EXCEPT ![n].stop = Max(@, p.stop)])
             ELSE debounce_touching(Tail(periods), min_off_ns, Append(merged, p))

\* debouncing: an on-period that follows the previous one after a gap shorter
\* than min_off_ns is joined to it
RECURSIVE debounce(_, _, _)
debounce(periods, min_off_ns, merged) ==
    IF periods = <<>> THEN merged
    ELSE LET p == Head(periods)
             n == Len(merged)
         IN  IF n > 0 /\ p.start - merged[n].stop < min_off_ns
             THEN debounce(Tail(periods), min_off_ns,
                           [merged EXCEPT ![n].stop = Max(@, p.stop)])
             ELSE debounce(Tail(periods), min_off_ns, Append(merged, p))

\* merge_markers: the on and off events of the merged on-periods
merge_markers(start_stop, marker_value, min_off_ns) ==
    LET periods == debounce(scan_on_periods(sort_events(start_stop), 0, 0, <<>>),
                            min_off_ns, <<>>)
    IN  [i \in 1..(2 * Len(periods)) |->
            IF i % 2 = 1 THEN marker_event(periods[(i + 1) \div 2].start, marker_value)
            ELSE marker_event(periods[i \div 2].stop, 0 - marker_value)]

\* UploadAggregator.max_pre_start_ns when the marker is the only channel with
\* a delay, a setup or a hold time
max_pre_start_ns(ch) ==
    LET a == ch.delay - ch.setup_ns
        b == ch.delay + ch.hold_ns
        least == IF a < b THEN a ELSE b
    IN  IF least < 0 THEN 0 - least ELSE 0

\* the pulses of one segment, in the order of my_marker_data
pulses_of(pulses, iseg) == SelectSeq(pulses, LAMBDA pulse : pulse.iseg = iseg)

\* the events of the pulses of one segment, the on event rounded up
RECURSIVE pulse_events_ceil_start(_, _, _)
pulse_events_ceil_start(pulses, offset, ch) ==
    IF pulses = <<>> THEN <<>>
    ELSE LET pulse == Head(pulses)
         IN  <<marker_event(PulsarConfig_ceil(RatInt(offset + pulse.start - ch.setup_ns)), 1),
               marker_event(PulsarConfig_ceil(RatInt(offset + pulse.stop + ch.hold_ns)), 0 - 1)>>
             \o pulse_events_ceil_start(Tail(pulses), offset, ch)

\* the inner loop of get_markers: the on and off events of the pulses of one
\* segment, extended by the setup and hold time and rounded to the grid
RECURSIVE pulse_events(_, _, _)
pulse_events(pulses, offset, ch) ==
    IF pulses = <<>> THEN <<>>
    ELSE LET pulse == Head(pulses)
         IN  <<marker_event(PulsarConfig_floor(offset + pulse.start - ch.setup_ns), 1),
               marker_event(PulsarConfig_ceil(RatInt(offset + pulse.stop + ch.hold_ns)), 0 - 1)>>
             \o pulse_events(Tail(pulses), offset, ch)

\* the outer loop of get_markers over the segments from iseg on
RECURSIVE get_start_stop(_, _, _, _)
get_start_stop(segs, pulses, ch, iseg) ==
    IF iseg > Len(segs) THEN <<>>
    ELSE LET offset == segs[iseg].t_start + ch.delay + max_pre_start_ns(ch)
         IN  pulse_events(pulses_of(pulses, iseg), offset, ch)
             \o get_start_stop(segs, pulses, ch, iseg + 1)

\* 1 << marker_channel.channel_number
marker_value(ch) == 2 ^ ch.channel_number

\* UploadAggregator.get_markers
get_markers(segs, pulses, ch) ==
    merge_markers(get_start_stop(segs, pulses, ch, 1), marker_value(ch), 20)

\* the loop of get_markers_seq over the sorted markers: the value of the
\* marker output from every time on
RECURSIVE accumulate_markers(_, _, _)
accumulate_markers(m, s, seq_markers) ==
    IF m = <<>> THEN seq_markers
    ELSE LET value == s + Head(m).v
             n == Len(seq_markers)
         IN  IF n > 0 /\ seq_markers[n].t = Head(m).t
             THEN accumulate_markers(Tail(m), value,
                        [seq_markers EXCEPT ![n] = [t |-> Head(m).t, s |-> value]])
             ELSE accumulate_markers(Tail(m), value,
                        Append(seq_markers, [t |-> Head(m).t, s |-> value]))

\* UploadAggregator.get_markers_seq for a sequencer with one marker
get_markers_seq ==
    /\ marker_channel # <<>>
    /\ LET start_stop == get_start_stop(segments, marker_pulses, marker_channel, 1)
           merged == get_markers(segments, marker_pulses, marker_channel)
       IN  markers' = [by |-> "get_markers_seq", min_off_ns |-> 20,
                       start_stop |-> start_stop, events |-> merged,
                       seq_markers |-> accumulate_markers(sort_events(merged), 0, <<>>)]
    /\ UNCHANGED <<awg_channels, channels, job, upload_info, segments, build_pc, n_awg,
                   marker_channel, marker_pulses, ip_vars, tl_vars, seg_vars, other_vars>>

\* the intervals of the pulses as they are, placed in the job
RECURSIVE plain_start_stop(_, _)
plain_start_stop(segs, pulses) ==
    IF pulses = <<>> THEN <<>>
    ELSE LET pulse == Head(pulses)
             offset == segs[pulse.iseg].t_start
         IN  <<marker_event(offset + pulse.start, 1),
               marker_event(offset + pulse.stop, 0 - 1)>>
             \o plain_start_stop(segs, Tail(pulses))

\* merge_markers applied to the intervals of the pulses with a minimum off-time
do_merge_markers(min_off_ns) ==
    /\ marker_channel # <<>>
    /\ LET start_stop == plain_start_stop(segments, marker_pulses)
           merged == merge_markers(start_stop, marker_value(marker_channel), min_off_ns)
       IN  markers' = [by |-> "merge_markers", min_off_ns |-> min_off_ns,
                       start_stop |-> start_stop, events |-> merged,
                       seq_markers |-> <<>>]
    /\ UNCHANGED <<awg_channels, channels, job, upload_info, segments, build_pc, n_awg,
                   marker_channel, marker_pulses, ip_vars, tl_vars, seg_vars, other_vars>>

\* marker_channel: the configurations of the marker
MarkerChannels ==
    [delay : {0}, setup_ns : {0, 2}, hold_ns : {0, 6}, channel_number : {1}]

\* the marker pulses of a segment, and the segment they are in
MarkerPulses ==
    {[iseg |-> iseg, start |-> p[1], stop |-> p[2]] :
        iseg \in 1..2, p \in {<<0, 10>>, <<12, 20>>, <<10, 20>>, <<0, 12>>}}

\* a job of two segments of 40 ns that build has placed
InitMarkers ==
    /\ TimelineIdle
    /\ SegmentsIdle
    /\ awg_channels = <<>>
    /\ channels = <<>>
    /\ job = <<>>
    /\ upload_info = <<>>
    /\ segments = segment_render_infos(<<40, 40>>, 0)
    /\ build_pc = "idle"
    /\ n_awg = 0
    /\ marker_channel \in MarkerChannels
    /\ marker_pulses \in UNION {[1..n -> MarkerPulses] : n \in 0..MaxMarkers}
    /\ markers = <<>>
    /\ InterpolationIdle
    /\ OthersIdle

NextMarkers ==
    \/ get_markers_seq
    \/ \E min_off_ns \in {1, 5} : do_merge_markers(min_off_ns)

SpecMarkers == InitMarkers /\ [][NextMarkers]_vars

\* the on-periods of a list of marker events: on event, off event, in turn
OnPeriods(events) ==
    [i \in 1..(Len(events) \div 2) |->
        [start |-> events[2 * i - 1].t, stop |-> events[2 * i].t]]

\* the intervals handed to the merge
InputIntervals ==
    {[start |-> markers.start_stop[2 * i - 1].t, stop |-> markers.start_stop[2 * i].t] :
        i \in 1..(Len(markers.start_stop) \div 2)}

\* the on-times the pulses of the marker ask for, setup and hold time included
GuardedIntervals ==
    {[start |-> segments[pulse.iseg].t_start + marker_channel.delay
                    + max_pre_start_ns(marker_channel) + pulse.start - marker_channel.setup_ns,
      stop |-> segments[pulse.iseg].t_start + marker_channel.delay
                    + max_pre_start_ns(marker_channel) + pulse.stop + marker_channel.hold_ns] :
        pulse \in SeqToSet(marker_pulses)}

Covers(periods, interval) ==
    \E i \in DOMAIN periods :
        periods[i].start <= interval.start /\ interval.stop <= periods[i].stop

ExamplePulses ==
    <<[iseg |-> 1, start |-> 0, stop |-> 10], [iseg |-> 1, start |-> 12, stop |-> 20]>>

\* C16: merging marker intervals yields disjoint on-periods, each starting at
\* the start of an input interval and ending at the end of one, that cover
\* every input interval; consecutive on-periods are at least the minimum
\* off-time apart (a shorter gap is merged away); [0,10] and [12,20] give
\* [0,20] with minimum off-time 5 and stay as they are with minimum off-time 1
C16_MarkersMerged ==
    markers # <<>> =>
        LET periods == OnPeriods(markers.events)
        IN  /\ Len(markers.events) % 2 = 0
            /\ \A i \in DOMAIN periods :
                  /\ periods[i].start <= periods[i].stop
                  /\ markers.events[2 * i - 1].v > 0 /\ markers.events[2 * i].v < 0
                  /\ \E x \in InputIntervals : x.start = periods[i].start
                  /\ \E x \in InputIntervals : x.stop = periods[i].stop
                  /\ i > 1 => /\ periods[i - 1].stop < periods[i].start
                              /\ periods[i].start - periods[i - 1].stop >= markers.min_off_ns
            /\ \A x \in InputIntervals : Covers(periods, x)
            /\ markers.by = "get_markers_seq" =>
                  \A x \in GuardedIntervals : Covers(periods, x)
            /\ (markers.by = "merge_markers" /\ marker_pulses = ExamplePulses) =>
                  /\ markers.min_off_ns = 5 =>
                        periods = <<[start |-> 0, stop |-> 20]>>
                  /\ markers.min_off_ns = 1 =>
                        periods = <<[start |-> 0, stop |-> 10], [start |-> 12, stop |-> 20]>>

\* the example: [0,10] and [12,20] merged with minimum off-time 5 into [0,20]
C16_Witness ==
    /\ markers # <<>>
    /\ markers.by = "merge_markers"
    /\ markers.min_off_ns = 5
    /\ marker_pulses = ExamplePulses
    /\ OnPeriods(markers.events) = <<[start |-> 0, stop |-> 20]>>

(***************************************************************************)
(* Composition of channels (segment_base.pulse_data_all)                   *)
(*                                                                         *)
(* A is an AWG gate, B and C are virtual gates, Q is a qubit channel.      *)
(* The segments hold one pulse_data each (no sweep axes), and no marker    *)
(* references.  The blocks added have amplitudes that keep every product   *)
(* with a weight a whole number of mV.                                     *)
(***************************************************************************)
MaxSegOps == 2      \* largest number of additions to the segments in one run

SegmentNames == {"A", "B", "C", "Q"}
GateNames == {"A", "B", "C"}

\* segment.type
segment_type == [ch \in SegmentNames |-> IF ch = "A" THEN "render" ELSE "virtual"]

\* virtual_channel_reference_info: the referenced segment and its weight
Reference(segment, factor) == [segment |-> segment, multiplication_factor |-> factor]

\* the reference lists the virtual gate matrix gives channels A and B
ReferencesOfA ==
    { <<>>,
      <<Reference("B", Rat(1, 2))>>,
      <<Reference("B", RatInt(2))>>,
      <<Reference("B", Rat(1, 2)), Reference("C", RatInt(1))>> }
ReferencesOfB == { <<>>, <<Reference("C", Rat(1, 2))>> }

\* IQ_data_single: the fields get_IQ_data changes, and the span
IQ_data_single(start, stop, amplitude, frequency, phase_offset) ==
    [start |-> start, stop |-> stop, amplitude |-> amplitude,
     frequency |-> frequency, phase_offset |-> phase_offset]

\* Chirp
Chirp(start, stop, amplitude, start_frequency, stop_frequency, phase) ==
    [start |-> start, stop |-> stop, amplitude |-> amplitude,
     start_frequency |-> start_frequency, stop_frequency |-> stop_frequency,
     phase |-> phase]

\* x * factor for a factor n/d
Scale(x, factor) == (x * factor.n) \div factor.d

\* pulse_delta.__mul__
delta_mul(delta, factor) ==
    pulse_delta(delta.time, Scale(delta.step, factor), Scale(delta.ramp, factor))

\* the effect of pulse_data.__copy__ and pulse_data.__mul__ on self
consolidate_self(d) == IF d.has_data THEN consolidate(d) ELSE d

\* pulse_data.__copy__
pd_copy(d) ==
    LET c == consolidate_self(d)
    IN  [pulse_data_init EXCEPT
            !.hres = d.hres,
            !.preprocessed_sample_rate = d.preprocessed_sample_rate,
            !.pulse_deltas = IF d.has_data THEN c.pulse_deltas ELSE <<>>,
            !.MW_pulse_data = IF d.has_data THEN c.MW_pulse_data ELSE <<>>,
            !.phase_shifts = IF d.has_data THEN c.phase_shifts ELSE <<>>,
            !.custom_pulse_data = IF d.has_data THEN c.custom_pulse_data ELSE <<>>,
            !.chirp_data = IF d.has_data THEN c.chirp_data ELSE <<>>,
            !.has_data = d.has_data,
            !.start_time = c.start_time,
            !.end_time = c.end_time,
            !.consolidated = c.consolidated,
            !.phase_shifts_consolidated = c.phase_shifts_consolidated,
            !.preprocessed = c.preprocessed,
            !.breaks_processed = c.breaks_processed]

\* pulse_data.__add__ with a pulse_data operand
pd_add(self, other) ==
    IF other.has_data
    THEN [pulse_data_init EXCEPT
            !.hres = self.hres,
            !.start_time = self.start_time,
            !.pulse_deltas = self.pulse_deltas \o other.pulse_deltas,
            !.MW_pulse_data = self.MW_pulse_data \o other.MW_pulse_data,
            !.phase_shifts = self.phase_shifts \o other.phase_shifts,
            !.custom_pulse_data = self.custom_pulse_data \o other.custom_pulse_data,
            !.chirp_data = self.chirp_data \o other.chirp_data,
            !.end_time = Max(self.end_time, other.end_time),
            !.has_data = TRUE]
    ELSE self

\* pulse_data.__mul__ with the factor left out
pd_mul_unscaled(d, factor) ==
    IF d.has_data
    THEN LET c == consolidate(d)
         IN  [pulse_data_init EXCEPT
                !.hres = d.hres,
                !.pulse_deltas = c.pulse_deltas,
                !.MW_pulse_data = c.MW_pulse_data,
                !.custom_pulse_data = c.custom_pulse_data,
                !.chirp_data = c.chirp_data,
                !.phase_shifts = c.phase_shifts,
                !.end_time = c.end_time,
                !.start_time = c.start_time,
                !.consolidated = c.consolidated,
                !.phase_shifts_consolidated = c.phase_shifts_consolidated,
                !.has_data = TRUE]
    ELSE d

\* pulse_data.__mul__: the product returned
pd_mul(d, factor) ==
    IF d.has_data
    THEN LET c == consolidate(d)
         IN  [pulse_data_init EXCEPT
                !.hres = d.hres,
                !.pulse_deltas = [i \in DOMAIN c.pulse_deltas |->
                                    delta_mul(c.pulse_deltas[i], factor)],
                !.MW_pulse_data = [i \in DOMAIN c.MW_pulse_data |->
                                    [c.MW_pulse_data[i] EXCEPT !.amplitude = Scale(@, factor)]],
                !.custom_pulse_data = [i \in DOMAIN c.custom_pulse_data |->
                                    [c.custom_pulse_data[i] EXCEPT !.scaling = Scale(@, factor)]],
                !.chirp_data = [i \in DOMAIN c.chirp_data |->
                                    [c.chirp_data[i] EXCEPT !.amplitude = Scale(@, factor)]],
                !.phase_shifts = c.phase_shifts,
                !.end_time = c.end_time,
                !.start_time = c.start_time,
                !.consolidated = c.consolidated,
                !.phase_shifts_consolidated = c.phase_shifts_consolidated,
                !.has_data = TRUE]
    ELSE d

\* pulse_data.get_IQ_data: the pulse_data returned
get_IQ_data(d, gain, frequency_shift, phase_shift) ==
    LET c == consolidate_phase_shifts(d)
    IN  [pulse_data_init EXCEPT
            !.hres = d.hres,
            !.MW_pulse_data = [i \in DOMAIN c.MW_pulse_data |->
                [c.MW_pulse_data[i] EXCEPT !.amplitude = @ * gain,
                                           !.frequency = @ - frequency_shift,
                                           !.phase_offset = @ + phase_shift]],
            !.chirp_data = [i \in DOMAIN c.chirp_data |->
                [c.chirp_data[i] EXCEPT !.amplitude = @ * gain,
                                        !.start_frequency = @ - frequency_shift,
                                        !.stop_frequency = @ - frequency_shift,
                                        !.phase = @ + phase_shift]],
            !.phase_shifts = c.phase_shifts,
            !.end_time = c.end_time,
            !.start_time = c.start_time,
            !.consolidated = c.consolidated,
            !.phase_shifts_consolidated = c.phase_shifts_consolidated]

\* _pulse_data_all is None
NoMemo == [memo |-> "None"]
\* _pulse_data_all is self.data (the same object)
OwnData == [memo |-> "self.data"]

\* the segments as pulse_data_all reads and updates them
Segments == [data |-> seg_data, all |-> _pulse_data_all]

\* the object _pulse_data_all of a channel refers to
memo_value(st, ch) == IF st.all[ch] = OwnData THEN st.data[ch] ELSE st.all[ch]

\* an update in place of the object _pulse_data_all of a channel refers to
set_memo_value(st, ch, v) ==
    IF st.all[ch] = OwnData THEN [st EXCEPT !.data[ch] = v] ELSE [st EXCEPT !.all[ch] = v]

RECURSIVE pulse_data_all(_, _)
RECURSIVE add_reference_channels(_, _, _)

\* the loop of pulse_data_all over reference_channels: each pass replaces
\* _pulse_data_all of the channel by its sum with the weighted reference
add_reference_channels(st, ch, refs) ==
    IF refs = <<>> THEN st
    ELSE LET ref_chan == Head(refs)
             read == pulse_data_all(st, ref_chan.segment)
             operand == memo_value(read, ref_chan.segment)
             product == pd_mul(operand, ref_chan.multiplication_factor)
             multiplied == set_memo_value(read, ref_chan.segment, consolidate_self(operand))
         IN  add_reference_channels(
                 [multiplied EXCEPT !.all[ch] = pd_add(@, product)], ch, Tail(refs))

\* the property segment_base.pulse_data_all: the segments after the read.
\* _pulse_data_all holds the copy of the own data while the references are added
pulse_data_all(st, ch) ==
    IF st.all[ch] # NoMemo THEN st
    ELSE IF reference_channels[ch] = <<>> THEN [st EXCEPT !.all[ch] = OwnData]
    ELSE add_reference_channels(
             [st EXCEPT !.data[ch] = consolidate_self(@), !.all[ch] = pd_copy(st.data[ch])],
             ch, reference_channels[ch])

\* an operation on the segments; additions are counted
SegmentStep(st, res, added) ==
    /\ seg_data' = st.data
    /\ _pulse_data_all' = st.all
    /\ seg_result' = res
    /\ n_seg_ops' = n_seg_ops + added
    /\ UNCHANGED <<reference_channels, tl_vars, comp_vars>>

\* segment_pulse.add_block on a gate
segment_add_block(ch, start, stop, amplitude) ==
    /\ n_seg_ops < MaxSegOps
    /\ SegmentStep([Segments EXCEPT !.data[ch] = seg_add_block(@, start, stop, amplitude)],
                   NoResult, 1)
    /\ UNCHANGED render_mode

\* pulse_data.add_MW_data on the qubit channel
segment_add_MW_data(ch, mw) ==
    /\ n_seg_ops < MaxSegOps
    /\ SegmentStep([Segments EXCEPT !.data[ch] = add_MW_data(@, mw)], NoResult, 1)
    /\ UNCHANGED render_mode

\* pulse_data.add_chirp on the qubit channel
segment_add_chirp(ch, chirp) ==
    /\ n_seg_ops < MaxSegOps
    /\ SegmentStep([Segments EXCEPT !.data[ch] = add_chirp(@, chirp)], NoResult, 1)
    /\ UNCHANGED render_mode

\* a read of segment_base.pulse_data_all
get_pulse_data_all(ch) ==
    /\ SegmentStep(pulse_data_all(Segments, ch), NoResult, 0)
    /\ UNCHANGED render_mode

\* segment_base.integrate
segment_integrate(ch) ==
    /\ LET st == pulse_data_all(Segments, ch)
           p == pre_process(memo_value(st, ch))
       IN  SegmentStep(set_memo_value(st, ch, p), NoResult, 0)
    /\ UNCHANGED render_mode

\* segment_base.enter_rendering_mode
enter_rendering_mode(ch) ==
    /\ render_mode' = [render_mode EXCEPT ![ch] = TRUE]
    /\ SegmentStep(IF segment_type[ch] = "render" THEN pulse_data_all(Segments, ch)
                   ELSE Segments,
                   NoResult, 0)

\* segment_base.exit_rendering_mode
exit_rendering_mode(ch) ==
    /\ render_mode' = [render_mode EXCEPT ![ch] = FALSE]
    /\ SegmentStep([Segments EXCEPT !.all[ch] = NoMemo], NoResult, 0)

\* timeline + qubit.get_IQ_data(gain, frequency_shift, phase_shift),
\* the superposition pulse_data_all makes for an IQ reference
superpose_IQ_data(ch, qubit, gain, frequency_shift, phase_shift) ==
    /\ SegmentStep([Segments EXCEPT !.data[qubit] = consolidate_phase_shifts(@)],
                   [returned |-> TRUE,
                    value |-> pd_add(seg_data[ch],
                                get_IQ_data(seg_data[qubit], gain, frequency_shift, phase_shift))],
                   0)
    /\ UNCHANGED render_mode

\* the constructors: segments without data, not in rendering mode, no memo
InitCompose ==
    /\ TimelineIdle
    /\ UploaderIdle
    /\ seg_data = [ch \in SegmentNames |-> pulse_data_init]
    /\ \E ra \in ReferencesOfA, rb \in ReferencesOfB :
            reference_channels = [ch \in SegmentNames |->
                IF ch = "A" THEN ra ELSE IF ch = "B" THEN rb ELSE <<>>]
    /\ render_mode = [ch \in SegmentNames |-> FALSE]
    /\ _pulse_data_all = [ch \in SegmentNames |-> NoMemo]
    /\ seg_result = NoResult
    /\ n_seg_ops = 0

NextCompose ==
    \/ \E ch \in {"A", "B"}, start \in {0, 100} : segment_add_block(ch, start, start + 100, 40)
    \/ segment_add_block("C", 0, 100, 40)
    \/ segment_add_MW_data("Q", IQ_data_single(0, 100, 10, 50, 0))
    \/ segment_add_chirp("Q", Chirp(0, 100, 10, 50, 60, 0))
    \/ get_pulse_data_all("A")
    \/ segment_integrate("A")
    \/ \E ch \in {"A", "B"} : enter_rendering_mode(ch)
    \/ \E ch \in {"A", "B"} : exit_rendering_mode(ch)
    \/ superpose_IQ_data("A", "Q", 2, 5, 1)

SpecCompose == InitCompose /\ [][NextCompose]_vars

(***************************************************************************)
(* Claims about the composition                                            *)
(***************************************************************************)
\* the times at which the voltage of a timeline is compared
CheckTimes == {0, 50, 100, 150, 200}

\* the voltage of a timeline of blocks at time t: the sum of the steps up to t
RECURSIVE StepsUpTo(_, _)
StepsUpTo(deltas, t) ==
    IF deltas = <<>> THEN 0
    ELSE (IF Head(deltas).time <= t THEN Head(deltas).step ELSE 0) + StepsUpTo(Tail(deltas), t)

ValueAt(d, t) == StepsUpTo(d.pulse_deltas, t)

\* the weighted sum over a reference list of the values given by v
RECURSIVE WeightedSum(_, _, _)
WeightedSum(refs, v, t) ==
    IF refs = <<>> THEN 0
    ELSE Scale(v[Head(refs).segment][t], Head(refs).multiplication_factor)
         + WeightedSum(Tail(refs), v, t)

\* the voltage of the fully composed timeline of every channel, from the
\* channels' own data: C has no references, B refers to C only, A to B and C
ComposedC == [t \in CheckTimes |-> ValueAt(seg_data["C"], t)]
ComposedB ==
    [t \in CheckTimes |-> ValueAt(seg_data["B"], t)
        + WeightedSum(reference_channels["B"], [ch \in {"C"} |-> ComposedC], t)]
ComposedA ==
    [t \in CheckTimes |-> ValueAt(seg_data["A"], t)
        + WeightedSum(reference_channels["A"],
                      [ch \in {"B", "C"} |-> IF ch = "B" THEN ComposedB ELSE ComposedC], t)]
Composed == [ch \in GateNames |->
                IF ch = "A" THEN ComposedA ELSE IF ch = "B" THEN ComposedB ELSE ComposedC]

\* what the property pulse_data_all of a channel returns in this state
PulseDataAllNow(ch) == memo_value(pulse_data_all(Segments, ch), ch)

\* no composition is memoized
NothingMemoized == \A ch \in SegmentNames : _pulse_data_all[ch] \in {NoMemo, OwnData}

\* channel A refers to B with weight 0.5, and B holds a 40 mV block over [0,100)
ScenarioD ==
    /\ reference_channels["A"] = <<Reference("B", Rat(1, 2))>>
    /\ reference_channels["B"] = <<>>
    /\ seg_data["B"].pulse_deltas = <<pulse_delta(0, 40, 0), pulse_delta(100, 0 - 40, 0)>>

\* C8: when the composed timeline of a channel with references is computed, it
\* equals the channel's own timeline plus, for each reference, the referenced
\* channel's composed timeline (its pulse_data_all) times the weight; computed
\* with nothing memoized this is the composition of the channels' own data; a
\* reference with weight 0.5 to a 40 mV block over [0,100) adds +20 mV there.
C8_ComposedTimeline ==
    [][\A ch \in GateNames :
        (_pulse_data_all[ch] = NoMemo /\ _pulse_data_all'[ch] \notin {NoMemo, OwnData}) =>
            /\ \A t \in CheckTimes :
                ValueAt(_pulse_data_all'[ch], t) =
                    ValueAt(seg_data[ch], t)
                    + WeightedSum(reference_channels[ch],
                                  [r \in GateNames |->
                                      [u \in CheckTimes |-> ValueAt(PulseDataAllNow(r)', u)]], t)
            /\ NothingMemoized =>
                \A t \in CheckTimes : ValueAt(_pulse_data_all'[ch], t) = Composed[ch][t]
            /\ (ch = "A" /\ ScenarioD) =>
                \A t \in CheckTimes :
                    ValueAt(_pulse_data_all'[ch], t) =
                        ValueAt(seg_data[ch], t) + (IF t < 100 THEN 20 ELSE 0)
    ]_vars

\* the composition of scenario D was computed, A holding a block of its own
C8_Witness ==
    /\ ScenarioD
    /\ seg_data["A"].pulse_deltas = <<pulse_delta(0, 40, 0), pulse_delta(100, 0 - 40, 0)>>
    /\ _pulse_data_all["A"] \notin {NoMemo, OwnData}
    /\ ValueAt(_pulse_data_all["A"], 50) = 60

\* C9: the superposition of a timeline and the IQ data of a qubit timeline
\* contains, for every microwave pulse and chirp of the qubit timeline, the
\* element with amplitude times gain, frequency minus the shift and phase
\* plus the phase shift (here gain 2, frequency shift 5, phase shift 1).
C9_SuperpositionHoldsIQ ==
    seg_result.returned =>
        /\ \A i \in DOMAIN seg_data["Q"].MW_pulse_data :
            LET mw == seg_data["Q"].MW_pulse_data[i]
            IN  IQ_data_single(mw.start, mw.stop, mw.amplitude * 2, mw.frequency - 5,
                               mw.phase_offset + 1) \in SeqToSet(seg_result.value.MW_pulse_data)
        /\ \A i \in DOMAIN seg_data["Q"].chirp_data :
            LET c == seg_data["Q"].chirp_data[i]
            IN  Chirp(c.start, c.stop, c.amplitude * 2, c.start_frequency - 5,
                      c.stop_frequency - 5, c.phase + 1) \in SeqToSet(seg_result.value.chirp_data)

\* C10: after enter_rendering_mode, pulse_data_all of the channel reflects
\* all data added before to the channel and to the channels it refers to.
C10_MemoInvalidatedOnEnter ==
    [][\A ch \in GateNames :
        (~render_mode[ch] /\ render_mode'[ch]) =>
            \A t \in CheckTimes : ValueAt(PulseDataAllNow(ch)', t) = Composed[ch][t]'
    ]_vars

(***************************************************************************)
(* Composition with reference cycles                                       *)
(***************************************************************************)
\* reference lists add_reference_channel accepts that form a cycle:
\* A -> A, A -> B -> A and A -> B -> C -> A
CyclicReferences ==
    { [ch \in SegmentNames |-> IF ch = "A" THEN <<Reference("A", Rat(1, 2))>> ELSE <<>>],
      [ch \in SegmentNames |->
          IF ch = "A" THEN <<Reference("B", Rat(1, 2))>>
          ELSE IF ch = "B" THEN <<Reference("A", Rat(1, 2))>> ELSE <<>>],
      [ch \in SegmentNames |->
          IF ch = "A" THEN <<Reference("B", RatInt(1))>>
          ELSE IF ch = "B" THEN <<Reference("C", Rat(1, 2))>>
          ELSE IF ch = "C" THEN <<Reference("A", Rat(1, 2))>> ELSE <<>>] }

\* the constructors followed by add_reference_channel calls that close a cycle
InitCycle ==
    /\ TimelineIdle
    /\ UploaderIdle
    /\ seg_data = [ch \in SegmentNames |-> pulse_data_init]
    /\ reference_channels \in CyclicReferences
    /\ render_mode = [ch \in SegmentNames |-> FALSE]
    /\ _pulse_data_all = [ch \in SegmentNames |-> NoMemo]
    /\ seg_result = NoResult
    /\ n_seg_ops = 0

SpecCycle == InitCycle /\ [][NextCompose]_vars

\* the channels a channel refers to directly
ReferencedBy(ch) ==
    {reference_channels[ch][i].segment : i \in DOMAIN reference_channels[ch]}

\* the channels reached from a channel over one or more references
ReachedFrom(ch) ==
    LET one == ReferencedBy(ch)
        two == one \cup UNION {ReferencedBy(r) : r \in one}
    IN  two \cup UNION {ReferencedBy(r) : r \in two}

\* the references of the channel lead into a cycle
ReferencesFormCycle(ch) ==
    ch \in ReachedFrom(ch) \/ \E r \in ReachedFrom(ch) : r \in ReachedFrom(r)

\* C11: the composed timeline of a channel whose references form a cycle is
\* rejected: no composition of such a channel is ever computed and stored.
C11_CyclicReferencesRejected ==
    \A ch \in GateNames : ReferencesFormCycle(ch) => _pulse_data_all[ch] = NoMemo


(***************************************************************************)
(* Rendering and the Nyquist limit (data_pulse.py: pulse_data._render).    *)
(* Frequencies, the sample rate and the local-oscillator frequency are in  *)
(* MHz; only the decision of _render to raise is modelled, not the samples.*)
(***************************************************************************)

\* IQ_data_single with its coherent_pulsing field: add_sin on a voltage
\* channel passes coherent_pulsing=False, the IQ segment passes True
MW_pulse(frequency, coherent_pulsing) ==
    [start |-> 0, stop |-> 100, amplitude |-> 10, frequency |-> frequency,
     phase_offset |-> 0, coherent_pulsing |-> coherent_pulsing]

\* frequencies of the pulses rendered, in MHz
Frequencies == {100, 600}

\* sample rates (MS/s) and local-oscillator frequencies given to render;
\* 0 stands for "no LO" (None), which _render treats the same
SampleRates == {1000}
LOs == {0, 500}

\* the check of _render on the start frequency of a chirp or the frequency of
\* a microwave pulse: abs(freq - LO) > sample_rate/2
above_nyquist(freq, LO, sample_rate) == 2 * Abs(IF LO # 0 THEN freq - LO ELSE freq) > sample_rate

\* pulse_data._render raises the Nyquist exception
render_raises(d, sample_rate, LO) ==
    \/ \E i \in DOMAIN d.MW_pulse_data :
          /\ d.MW_pulse_data[i].coherent_pulsing
          /\ above_nyquist(d.MW_pulse_data[i].frequency, LO, sample_rate)
    \/ \E i \in DOMAIN d.chirp_data :
          above_nyquist(d.chirp_data[i].start_frequency, LO, sample_rate)

\* pulse_data.render -> _render of the timeline of a channel
render(ch, sample_rate, LO) ==
    /\ ~consolidate_raises(seg_data[ch])
    /\ SegmentStep([Segments EXCEPT !.data[ch] = pre_process(@)],
                   [returned |-> TRUE,
                    value |-> [raised |-> render_raises(seg_data[ch], sample_rate, LO),
                               sample_rate |-> sample_rate, LO |-> LO]],
                   0)
    /\ UNCHANGED render_mode

InitRender ==
    /\ TimelineIdle
    /\ UploaderIdle
    /\ seg_data = [ch \in SegmentNames |-> pulse_data_init]
    /\ reference_channels = [ch \in SegmentNames |-> <<>>]
    /\ render_mode = [ch \in SegmentNames |-> FALSE]
    /\ _pulse_data_all = [ch \in SegmentNames |-> NoMemo]
    /\ seg_result = NoResult
    /\ n_seg_ops = 0

NextRender ==
    \/ \E frequency \in Frequencies, coherent_pulsing \in BOOLEAN :
            segment_add_MW_data("Q", MW_pulse(frequency, coherent_pulsing))
    \/ \E start_frequency, stop_frequency \in Frequencies :
            segment_add_chirp("Q", Chirp(0, 100, 10, start_frequency, stop_frequency, 0))
    \/ \E sample_rate \in SampleRates, LO \in LOs : render("Q", sample_rate, LO)

SpecRender == InitRender /\ [][NextRender]_vars

\* the largest magnitude of the frequency of a chirp after subtraction of LO:
\* the sweep is linear, so it is reached at the start or at the stop
ChirpAboveNyquist(chirp, LO, sample_rate) ==
    \/ 2 * Abs(chirp.start_frequency - LO) > sample_rate
    \/ 2 * Abs(chirp.stop_frequency - LO) > sample_rate

\* C15: rendering fails whenever a microwave pulse, coherent or not, or a
\* chirp has, after subtraction of the local-oscillator frequency, a frequency
\* whose magnitude exceeds half the sample rate
C15_AboveNyquistRejected ==
    seg_result.returned =>
        LET sample_rate == seg_result.value.sample_rate
            LO == seg_result.value.LO
            d == seg_data["Q"]
        IN  (\/ \E i \in DOMAIN d.MW_pulse_data :
                    2 * Abs(d.MW_pulse_data[i].frequency - LO) > sample_rate
             \/ \E i \in DOMAIN d.chirp_data :
                    ChirpAboveNyquist(d.chirp_data[i], LO, sample_rate))
            => seg_result.value.raised


(***************************************************************************)
(* The interpolation planner (qblox/linear_interpolation.py:               *)
(* InterpolationCompiler).  Times are in ns, frequencies in Hz and phases  *)
(* in units of 2*pi*1e-9 rad, so that the phase a sine gains in t ns is    *)
(* frequency * t.  A pulse of current_sines is named by the list that      *)
(* holds the object and its index in that list.                            *)
(***************************************************************************)
MaxItems == 2       \* largest number of sines and custom pulses in a list

\* IQ_data_single without envelope (order 2), as add_sin creates it
Sine(start, stop, frequency) ==
    [order |-> 2, start |-> start, stop |-> stop, amplitude |-> 10,
     frequency |-> frequency, phase_offset |-> 0]

\* custom_pulse_element (order 4)
CustomPulse(start, stop) ==
    [order |-> 4, start |-> start, stop |-> stop, amplitude |-> 10,
     frequency |-> 0, phase_offset |-> 0]

\* OffsetRamp (order 5)
Ramp(start, stop) ==
    [order |-> 5, start |-> start, stop |-> stop, amplitude |-> 0,
     frequency |-> 0, phase_offset |-> 0]

\* Interpolate
Interpolate(start, stop) == [start |-> start, stop |-> stop]

\* InterpolationCompiler.__init__ before _process_elements
NewCompiler(step, elements) ==
    [_step |-> step, _sections |-> <<>>, _sine_start |-> 0 - 1, _sine_stop |-> 0 - 1,
     _current |-> 0, _suspend_till |-> 0 - 1, _current_sines |-> <<>>,
     _new_elements |-> <<>>, elements |-> elements, given |-> elements,
     raised |-> FALSE]

\* the pulse object a reference of _current_sines names
Pulse(c, ref) == IF ref.new THEN c._new_elements[ref.i] ELSE c.elements[ref.i]

\* the end of the current section is set to t, and the section is kept
\* whatever its length
close_current_keep_short(c, t) ==
    [c EXCEPT !._sections[c._current].stop = t, !._current = 0]

\* the end of the current section is set to t; a short section is removed
close_current(c, t) ==
    LET current == c._current
        closed == [c EXCEPT !._sections[current].stop = t, !._current = 0]
    IN  IF t - c._sections[current].start < 2 * c._step
        THEN [closed EXCEPT !._sections = SubSeq(@, 1, Len(@) - 1)]
        ELSE closed

\* InterpolationCompiler._suspend
_suspend(c, start, stop) ==
    LET closed == IF c._current # 0 THEN close_current(c, start) ELSE c
        moved == IF stop < closed._sine_stop
                 THEN [closed EXCEPT !._sine_start = Max(@, stop)]
                 ELSE closed
    IN  [moved EXCEPT !._suspend_till = Max(@, stop)]

\* InterpolationCompiler._add_sine
_add_sine(c, ref) ==
    LET sine == Pulse(c, ref)
        start == Max(sine.start, c._suspend_till)
        stop == Max(sine.stop, c._suspend_till)
    IN  IF stop - start < 2 * c._step THEN c
        ELSE LET added == [c EXCEPT !._current_sines = Append(@, ref)]
             IN  IF start < c._sine_stop
                 THEN IF start < c._sine_start THEN [added EXCEPT !.raised = TRUE]
                      ELSE [added EXCEPT !._sine_stop = Max(@, stop)]
                 ELSE [added EXCEPT !._sine_start = start,
                                    !._sine_stop = stop,
                                    !._sections = Append(@, Interpolate(start, stop)),
                                    !._current = Len(c._sections) + 1]

\* the second part of a pulse broken at t, with the phase of the first part
new_pulse_same_phase(pulse, t) ==
    [order |-> 2, start |-> t, stop |-> pulse.stop, amplitude |-> pulse.amplitude,
     frequency |-> pulse.frequency, phase_offset |-> pulse.phase_offset]

\* new_pulse of _cut_sines: the second part of a pulse broken at t
new_pulse(pulse, t) ==
    [order |-> 2, start |-> t, stop |-> pulse.stop, amplitude |-> pulse.amplitude,
     frequency |-> pulse.frequency,
     phase_offset |-> pulse.phase_offset + pulse.frequency * (t - pulse.start)]

\* the loop of _cut_sines over the pulses of _current_sines
RECURSIVE cut_sines_loop(_, _, _, _)
cut_sines_loop(c, t, sines, new_current_sines) ==
    IF sines = <<>> THEN [c EXCEPT !._current_sines = new_current_sines]
    ELSE LET ref == Head(sines)
             pulse == Pulse(c, ref)
         IN  IF pulse.start > t THEN [c EXCEPT !.raised = TRUE]
             ELSE IF pulse.start = t
             THEN cut_sines_loop(c, t, Tail(sines), Append(new_current_sines, ref))
             ELSE IF pulse.stop > t
             THEN LET shortened == IF ref.new
                                   THEN [c EXCEPT !._new_elements[ref.i].stop = t]
                                   ELSE [c EXCEPT !.elements[ref.i].stop = t]
                      appended == [shortened EXCEPT !._new_elements = Append(@, new_pulse(pulse, t))]
                  IN  cut_sines_loop(appended, t, Tail(sines),
                          Append(new_current_sines,
                                 [new |-> TRUE, i |-> Len(appended._new_elements)]))
             ELSE cut_sines_loop(c, t, Tail(sines), new_current_sines)

\* InterpolationCompiler._cut_sines
_cut_sines(c, t) == cut_sines_loop(c, t, c._current_sines, <<>>)

\* InterpolationCompiler._cut
_cut(c, t) ==
    LET cut == _cut_sines(c, t)
        current == cut._current
        closed == IF current # 0 /\ t # cut._sections[current].start
                  THEN close_current(cut, t)
                  ELSE cut
    IN  IF cut.raised THEN cut
        ELSE IF t >= closed._sine_start /\ current = 0
                /\ closed._sine_stop - t > 2 * closed._step
        THEN [closed EXCEPT !._sections = Append(@, Interpolate(t, closed._sine_stop)),
                            !._current = Len(closed._sections) + 1]
        ELSE closed

\* 1 MHz, the largest frequency of a sine that is interpolated
MaxInterpolatedFrequency == 1000000

\* the loop of _process_elements from element ipulse on
RECURSIVE process_elements_loop(_, _)
process_elements_loop(c, ipulse) ==
    IF c.raised \/ ipulse > Len(c.elements) THEN c
    ELSE LET pulse == c.elements[ipulse]
         IN  process_elements_loop(
                 IF pulse.order = 2
                 THEN IF /\ 0 < Abs(pulse.frequency)
                         /\ Abs(pulse.frequency) <= MaxInterpolatedFrequency
                         /\ pulse.stop - pulse.start > 2 * c._step
                      THEN _add_sine(c, [new |-> FALSE, i |-> ipulse])
                      ELSE _suspend(c, pulse.start, pulse.stop)
                 ELSE IF pulse.order = 5
                 THEN LET cut == _cut(c, pulse.start)
                      IN  IF cut.raised THEN cut ELSE _cut(cut, pulse.stop)
                 ELSE IF pulse.order = 4
                 THEN _suspend(c, pulse.start, pulse.stop)
                 ELSE [c EXCEPT !.raised = TRUE],
                 ipulse + 1)

\* InterpolationCompiler._process_elements
_process_elements(c) ==
    LET done == process_elements_loop(c, 1)
    IN  IF done.raised \/ done._new_elements = <<>> THEN done
        ELSE [done EXCEPT !.elements = sort_elements(@ \o done._new_elements)]

\* InterpolationCompiler(sine_interpolation_step, pulse_elements)
InterpolationCompiler(sine_interpolation_step) ==
    /\ compiler = <<>>
    /\ LET c == _process_elements(NewCompiler(sine_interpolation_step, pulse_elements))
       IN  /\ compiler' = c
           /\ pulse_elements' = c.elements
    /\ UNCHANGED <<awg_channels, channels, job, upload_info, segments, build_pc, n_awg,
                   marker_channel, marker_pulses, markers, tl_vars, seg_vars, other_vars>>

\* the times at which elements start and stop
ElementTimes == {0, 1, 3, 4, 6}

\* sines of 1 MHz (interpolated when long enough) and of 2 MHz, custom pulses
Items ==
    {Sine(t[1], t[2], f) : t \in {x \in ElementTimes \X ElementTimes : x[1] < x[2]},
                           f \in {1000000, 2000000}}
    \cup {CustomPulse(t[1], t[2]) : t \in {x \in ElementTimes \X ElementTimes : x[1] < x[2]}}

\* the item lists in the order of get_data_elements
ItemLists ==
    {s \in UNION {[1..n -> Items] : n \in 0..MaxItems} :
        \A i \in 1..(Len(s) - 1) : element_le(s[i], s[i + 1])}

\* the ramps of a timeline that spans all element times, broken at every
\* start and stop of the items
RECURSIVE RampsFrom(_, _)
RampsFrom(t, breaks) ==
    IF \A b \in breaks : b <= t THEN <<>>
    ELSE LET next == CHOOSE b \in breaks : b > t /\ \A x \in breaks : x > t => b <= x
         IN  <<Ramp(t, next)>> \o RampsFrom(next, breaks)

BrokenRamps(items) ==
    RampsFrom(0, {0, 6} \cup {items[i].start : i \in DOMAIN items}
                        \cup {items[i].stop : i \in DOMAIN items})

InitInterpolation ==
    /\ TimelineIdle
    /\ SegmentsIdle
    /\ awg_channels = <<>>
    /\ channels = <<>>
    /\ job = <<>>
    /\ upload_info = <<>>
    /\ segments = <<>>
    /\ build_pc = "idle"
    /\ n_awg = 0
    /\ MarkersIdle
    /\ OthersIdle
    /\ \E items \in ItemLists, with_ramps \in BOOLEAN :
            pulse_elements = sort_elements(
                items \o (IF with_ramps THEN BrokenRamps(items) ELSE <<>>))
    /\ compiler = <<>>

NextInterpolation == \E step \in {1, 2} : InterpolationCompiler(step)

SpecInterpolation == InitInterpolation /\ [][NextInterpolation]_vars

\* the spans in which interpolation is excluded: the custom pulses and the
\* sines above 1 MHz of the list given
HighFrequencySpans ==
    {e \in SeqToSet(compiler.given) :
        e.order = 4 \/ (e.order = 2 /\ Abs(e.frequency) > MaxInterpolatedFrequency)}

Constructed == compiler # <<>> /\ ~compiler.raised

\* C17: no interpolation section of the planner overlaps the span of a sine
\* above 1 MHz or of a custom pulse
C17_NoSectionInHighFrequencySpan ==
    Constructed =>
        \A i \in DOMAIN compiler._sections : \A e \in HighFrequencySpans :
            ~(compiler._sections[i].start < e.stop /\ e.start < compiler._sections[i].stop)


\* C18: every interpolation section of the result is at least twice the
\* interpolation step long
C18_SectionsLongEnough ==
    Constructed =>
        \A i \in DOMAIN compiler._sections :
            compiler._sections[i].stop - compiler._sections[i].start >= 2 * compiler._step

\* a sine from 0 to 6 with a custom pulse from 0 to 1: the section of the sine
\* is closed at 0 by the custom pulse and removed, a section from 1 to 6 follows
C18_Witness ==
    /\ Constructed
    /\ compiler._step = 1
    /\ compiler.given = <<Sine(0, 6, 1000000), CustomPulse(0, 1), Ramp(0, 1), Ramp(1, 6)>>
    /\ compiler._sections = <<Interpolate(1, 6)>>


\* the sines of an element list
SinesOf(elements) == {j \in DOMAIN elements : elements[j].order = 2}

\* the phase of a sine referred to time 0: a part split off at t with phase
\* phase_offset + frequency * (t - start) has the phase at 0 of the whole
PhaseAtZero(e) == e.phase_offset - e.frequency * e.start

\* the number of sines of a list with the amplitude, frequency and phase at 0
\* of sine g that are on during the time from a to b
PartsOn(elements, g, a, b) ==
    Cardinality({j \in SinesOf(elements) :
        /\ elements[j].amplitude = g.amplitude
        /\ elements[j].frequency = g.frequency
        /\ PhaseAtZero(elements[j]) = PhaseAtZero(g)
        /\ elements[j].start <= a /\ b <= elements[j].stop})

\* the times between two consecutive element times
Atoms ==
    {x \in ElementTimes \X ElementTimes :
        x[1] < x[2] /\ ~\E t \in ElementTimes : x[1] < t /\ t < x[2]}

\* C19: the parts into which the planner splits a sine cover exactly the span
\* of the sine, without overlap, each with the amplitude and frequency of the
\* sine and with a phase_offset that is the phase_offset of the sine plus
\* 2*pi*frequency*(start of the part - start of the sine); the other elements
\* are unchanged
C19_SplitSinesContinuePhase ==
    Constructed =>
        LET elements == compiler.elements
            given == compiler.given
        IN  /\ Len(elements) = Len(given) + Len(compiler._new_elements)
            /\ \A j \in DOMAIN elements : elements[j].start < elements[j].stop
            /\ \A g \in {elements[j] : j \in SinesOf(elements)}
                          \cup {given[j] : j \in SinesOf(given)} :
                  \A x \in Atoms :
                      PartsOn(elements, g, x[1], x[2]) = PartsOn(given, g, x[1], x[2])
            /\ \A j \in SinesOf(elements) : \E i \in SinesOf(given) :
                  /\ given[i].start <= elements[j].start
                  /\ elements[j].stop <= given[i].stop
                  /\ elements[j].amplitude = given[i].amplitude
                  /\ elements[j].frequency = given[i].frequency
                  /\ elements[j].phase_offset = given[i].phase_offset
                        + given[i].frequency * (elements[j].start - given[i].start)
            /\ SelectSeq(elements, LAMBDA e : e.order # 2)
                  = SelectSeq(given, LAMBDA e : e.order # 2)

\* a sine from 0 to 6 is cut twice, at 1 and at 4: its parts start with the
\* phases 0, 1 MHz * 1 ns and 1 MHz * 4 ns
C19_Witness ==
    /\ Constructed
    /\ compiler.given = <<Sine(0, 6, 1000000), Ramp(0, 1), Sine(1, 4, 1000000),
                          Ramp(1, 4), Ramp(4, 6)>>
    /\ \E j \in DOMAIN compiler.elements :
          compiler.elements[j] = [Sine(0, 1, 1000000) EXCEPT !.phase_offset = 0]
    /\ \E j \in DOMAIN compiler.elements :
          compiler.elements[j] = [Sine(1, 4, 1000000) EXCEPT !.phase_offset = 1000000]
    /\ \E j \in DOMAIN compiler.elements :
          compiler.elements[j] = [Sine(4, 6, 1000000) EXCEPT !.phase_offset = 4000000]

(***************************************************************************)
(* integrate_waveform at a sample rate: the integral of a single ramp      *)
(***************************************************************************)
\* sample rates in MSa/s; t_sample = 1e9/sample_rate is a whole number of ns
t_sample(sample_rate) == 1000 \div sample_rate

\* int(x/t_sample): Python's int() truncates towards zero
int_div(x, y) == IF x >= 0 THEN x \div y ELSE 0 - ((0 - x) \div y)

\* the hres branch of _pre_process for one delta: the time moves down to the
\* sample grid, and the step loses the part of the ramp covered before it
hres_delta(delta, ts) ==
    IF delta.time # Inf
    THEN LET t == int_div(delta.time, ts) * ts
             dt == delta.time - t
         IN  pulse_delta(t, delta.step - dt * delta.ramp, delta.ramp)
    ELSE delta

\* pulse_data._pre_process(sample_rate) (when _consolidate does not raise)
pre_process_at(d, sample_rate) ==
    LET c == consolidate(d)
        deltas == IF c.hres /\ sample_rate # None
                  THEN [i \in DOMAIN c.pulse_deltas |->
                            hres_delta(c.pulse_deltas[i], t_sample(sample_rate))]
                  ELSE c.pulse_deltas
        a == pre_process_arrays(deltas, c.end_time)
    IN  IF c.preprocessed /\ (~c.hres \/ c.preprocessed_sample_rate = sample_rate)
        THEN c
        ELSE [c EXCEPT !.times = a.times, !.intervals = a.intervals,
                       !.amplitudes = a.amplitudes,
                       !.amplitudes_end = a.amplitudes_end,
                       !.preprocessed = TRUE,
                       !.preprocessed_sample_rate = sample_rate]

\* segment_pulse.add_ramp_ss(start, stop, v0, v1) on an empty channel
add_ramp_ss_empty(start, stop, v0, v1) ==
    /\ lastOp = "init"
    /\ start # stop => (v1 - v0) % (stop - start) = 0
    /\ data' = seg_add_ramp_ss(data, start, stop, v0, v1, FALSE)
    /\ lastOp' = "add_ramp_ss"
    /\ result' = Returned(0, <<>>)
    /\ deltas_before' = <<>>
    /\ n_ops' = n_ops + 1
    /\ UNCHANGED <<comp_vars, seg_vars>>

\* segment_base.integrate(index, sample_rate)
\*   -> pulse_data.integrate_waveform(sample_rate)
integrate_at(sample_rate) ==
    /\ lastOp # "init"
    /\ lastOp' = "integrate"
    /\ deltas_before' = data.pulse_deltas
    /\ IF consolidate_raises(data)
       THEN data' = data /\ result' = Raised
       ELSE LET p == pre_process_at(data, sample_rate)
            IN  data' = p /\ result' = Returned(integrated_value2(p), <<>>)
    /\ UNCHANGED <<n_ops, comp_vars, seg_vars>>

RampTimes == {0, 1, 3, 4, 100}
RampAmplitudes == {0 - 6, 0, 6, 100}
IntegrateSampleRates == {1000, 500, 125}

\* segment_pulse(name, hres): an empty channel, with or without hres
InitRamp ==
    /\ data \in {[pulse_data_init EXCEPT !.hres = h] : h \in BOOLEAN}
    /\ lastOp = "init"
    /\ result = Returned(0, <<>>)
    /\ deltas_before = <<>>
    /\ n_ops = 0
    /\ UploaderIdle
    /\ SegmentsIdle

\* the ramps added: <<start, stop, v0, v1>>
RampInputs ==
    {r \in RampTimes \X RampTimes \X RampAmplitudes \X RampAmplitudes : r[1] <= r[2]}

NextRamp ==
    \/ \E r \in RampInputs : add_ramp_ss_empty(r[1], r[2], r[3], r[4])
    \/ \E sample_rate \in IntegrateSampleRates : integrate_at(sample_rate)

SpecRamp == InitRamp /\ [][NextRamp]_vars

\* twice the area (v0 + v1)/2 * (stop - start) of the ramp on the channel
\* (result.value is twice the integral, see integrated_value2):
\* its two deltas are (start, v0, ramp) and (stop, -v1, -ramp), and a ramp
\* without deltas (start = stop, or v0 = v1 = 0) has area 0
RampArea2 ==
    IF Len(data.pulse_deltas) = 2
    THEN (data.pulse_deltas[1].step - data.pulse_deltas[2].step)
         * (data.pulse_deltas[2].time - data.pulse_deltas[1].time)
    ELSE 0

\* the channel holds add_ramp_ss(0, 100, 0, 100)
ScenarioB ==
    data.pulse_deltas = <<pulse_delta(0, 0, 1), pulse_delta(100, 0 - 100, 0 - 1)>>

\* C20: for a single ramp add_ramp_ss(start, stop, v0, v1) on an empty
\* channel, integrate() returns (v0 + v1)/2 * (stop - start) at every sample
\* rate, and add_ramp_ss(0, 100, 0, 100) integrates to exactly 5000 mV.ns
C20_RampIntegral ==
    lastOp = "integrate" =>
        /\ ~result.raised
        /\ result.value = RampArea2
        /\ ScenarioB => result.value = 2 * 5000

\* the same on a channel without hres
RampIntegralWithoutHres ==
    (lastOp = "integrate" /\ ~data.hres) =>
        /\ ~result.raised
        /\ result.value = RampArea2
        /\ ScenarioB => result.value = 2 * 5000

(***************************************************************************)
(* pulse_data objects by reference: the lists of an object are Python      *)
(* lists on a heap, and their elements are objects on the heap, so that    *)
(* what copy.copy and copy.deepcopy share and what an in-place change      *)
(* reaches is part of the state                                            *)
(***************************************************************************)
MaxObjOps == 3      \* largest number of operations on the objects in one run

ListFields ==
    <<"pulse_deltas", "MW_pulse_data", "custom_pulse_data", "phase_shifts", "chirp_data">>

EmptyHeap == [lists |-> <<>>, elems |-> <<>>]

\* the elements of a list, by value
Values(h, lid) == [i \in DOMAIN h.lists[lid] |-> h.elems[h.lists[lid][i]]]

\* list(): a new list holding the elements ids
new_list(h, ids) == [h EXCEPT !.lists = Append(@, ids)]

\* copy.copy(list): a new list of the same element objects
copy_list(h, lid) == new_list(h, h.lists[lid])

\* copy.deepcopy(list): a new list of new element objects
deepcopy_list(h, lid) ==
    LET n == Len(h.elems)
        vals == Values(h, lid)
    IN  [lists |-> Append(h.lists, [i \in DOMAIN vals |-> n + i]),
         elems |-> h.elems \o vals]

\* list.append(v) for a new element object v
list_append(h, lid, v) ==
    [lists |-> [h.lists EXCEPT ![lid] = Append(@, Len(h.elems) + 1)],
     elems |-> Append(h.elems, v)]

\* list += other
list_extend(h, lid, other) == [h EXCEPT !.lists[lid] = @ \o h.lists[other]]

\* element.time += delta, or element.start += delta; element.stop += delta
shifted(v, delta) ==
    IF "time" \in DOMAIN v
    THEN [v EXCEPT !.time = IF @ = Inf THEN Inf ELSE @ + delta]
    ELSE [v EXCEPT !.start = @ + delta, !.stop = @ + delta]

\* shift_time and shift_start_stop: the elements of the list change in place
shift_in_place(h, lid, delta) ==
    [lists |-> h.lists,
     elems |-> [e \in DOMAIN h.elems |->
                    IF e \in SeqToSet(h.lists[lid]) THEN shifted(h.elems[e], delta)
                    ELSE h.elems[e]]]

\* pulse_data.__init__: five new lists; the flags that do not bear on the
\* event lists (_hres, _preprocessed, _breaks_processed) are left out
new_pulse_data(h) ==
    [o |-> [lists |-> [i \in DOMAIN ListFields |-> Len(h.lists) + i],
            start_time |-> 0, end_time |-> 0, has_data |-> FALSE,
            consolidated |-> FALSE, phase_shifts_consolidated |-> FALSE],
     h |-> [h EXCEPT !.lists = @ \o [i \in DOMAIN ListFields |-> <<>>]]]

\* index of a list field in ListFields
Field(name) == CHOOSE i \in DOMAIN ListFields : ListFields[i] = name

\* the object as the program reads it: its lists by value, and its times
View(h, o) ==
    [pulse_deltas |-> Values(h, o.lists[Field("pulse_deltas")]),
     MW_pulse_data |-> Values(h, o.lists[Field("MW_pulse_data")]),
     custom_pulse_data |-> Values(h, o.lists[Field("custom_pulse_data")]),
     phase_shifts |-> Values(h, o.lists[Field("phase_shifts")]),
     chirp_data |-> Values(h, o.lists[Field("chirp_data")]),
     start_time |-> o.start_time, end_time |-> o.end_time]

\* pulse_data.update_end_time
obj_update_end_time(o, t) ==
    IF t # Inf /\ t > o.end_time THEN [o EXCEPT !.end_time = t] ELSE o

\* pulse_data.add_delta
obj_add_delta(x, delta) ==
    IF ~is_near_zero(delta)
    THEN [o |-> obj_update_end_time(
                    [x.o EXCEPT !.consolidated = FALSE, !.has_data = TRUE], delta.time),
          h |-> list_append(x.h, x.o.lists[Field("pulse_deltas")], delta)]
    ELSE [o |-> obj_update_end_time(x.o, delta.time), h |-> x.h]

\* segment_pulse.add_block
obj_add_block(x, start, stop, amplitude) ==
    obj_add_delta(obj_add_delta(x, pulse_delta(start + x.o.start_time, amplitude, 0)),
                  pulse_delta(stop + x.o.start_time, 0 - amplitude, 0))

\* pulse_data.add_MW_data
obj_add_MW_data(x, mw) ==
    [o |-> obj_update_end_time(
                IF mw.amplitude # 0 THEN [x.o EXCEPT !.has_data = TRUE] ELSE x.o, mw.stop),
     h |-> IF mw.amplitude # 0
           THEN list_append(x.h, x.o.lists[Field("MW_pulse_data")], mw) ELSE x.h]

\* pulse_data.add_chirp
obj_add_chirp(x, chirp) ==
    [o |-> obj_update_end_time([x.o EXCEPT !.has_data = TRUE], chirp.stop),
     h |-> list_append(x.h, x.o.lists[Field("chirp_data")], chirp)]

\* pulse_data.add_phase_shift
obj_add_phase_shift(x, phase_shift) ==
    IF ~phase_is_near_zero(phase_shift)
    THEN [o |-> obj_update_end_time(
                    [x.o EXCEPT !.phase_shifts_consolidated = FALSE, !.has_data = TRUE],
                    phase_shift.time),
          h |-> list_append(x.h, x.o.lists[Field("phase_shifts")], phase_shift)]
    ELSE [o |-> obj_update_end_time(x.o, phase_shift.time), h |-> x.h]

\* pulse_data.wait
obj_wait(x, time) == [o |-> [x.o EXCEPT !.end_time = @ + time], h |-> x.h]

\* add_data for one list: other_x = copy.deepcopy(other.x); shift(other_x, time);
\* self.x += other_x
add_data_field(h, self, other, f, time) ==
    LET copied == deepcopy_list(h, other.lists[f])
        other_x == Len(copied.lists)
    IN  list_extend(shift_in_place(copied, other_x, time), self.lists[f], other_x)

RECURSIVE add_data_fields(_, _, _, _, _)
add_data_fields(h, self, other, time, n) ==
    IF n = 0 THEN h
    ELSE add_data_field(add_data_fields(h, self, other, time, n - 1), self, other, n, time)

\* pulse_data.add_data(other, time) on objects self and other
obj_add_data(h, self, other, time_arg) ==
    LET time == IF time_arg = None THEN self.start_time
                ELSE IF time_arg = 0 - 1 THEN self.end_time
                ELSE time_arg
        merged == IF other.has_data
                  THEN [self EXCEPT !.has_data = TRUE, !.consolidated = FALSE,
                                    !.phase_shifts_consolidated = FALSE]
                  ELSE self
    IN  [o |-> obj_update_end_time(merged, time + other.end_time),
         h |-> IF other.has_data
               THEN add_data_fields(h, self, other, time, Len(ListFields))
               ELSE h]

\* list.sort(key=lambda p: p.time): a stable sort of the element objects
RECURSIVE insert_id_by_time(_, _, _)
insert_id_by_time(elems, ids, e) ==
    IF ids = <<>> THEN <<e>>
    ELSE IF elems[Head(ids)].time <= elems[e].time
    THEN <<Head(ids)>> \o insert_id_by_time(elems, Tail(ids), e)
    ELSE <<e>> \o ids

RECURSIVE sort_ids_by_time(_, _)
sort_ids_by_time(elems, ids) ==
    IF ids = <<>> THEN <<>>
    ELSE insert_id_by_time(elems, sort_ids_by_time(elems, SubSeq(ids, 1, Len(ids) - 1)),
                           ids[Len(ids)])

\* an element held in the variable last of the scan: an object of the list,
\* or (id 0) the new object made by last + delta
Held(id, v) == [id |-> id, v |-> v]

\* new_deltas.append(last) when last is not near zero
append_held(x, last, near_zero) ==
    IF near_zero THEN x
    ELSE IF last.id # 0 THEN [h |-> x.h, ids |-> Append(x.ids, last.id)]
    ELSE [h |-> [x.h EXCEPT !.elems = Append(@, last.v)],
          ids |-> Append(x.ids, Len(x.h.elems) + 1)]

\* the scan of _consolidate (phase FALSE) and of _consolidate_phase_shifts
\* (phase TRUE) over the element objects
RECURSIVE merge_ids(_, _, _, _)
merge_ids(x, rest, last, phase) ==
    LET near_zero == IF phase THEN phase_is_near_zero(last.v) ELSE is_near_zero(last.v)
    IN  IF rest = <<>> THEN append_held(x, last, near_zero)
        ELSE LET e == x.h.elems[Head(rest)] IN
             IF e.time = last.v.time
             THEN merge_ids(x, Tail(rest),
                            Held(0, IF phase THEN phase_add(last.v, e)
                                    ELSE delta_add(last.v, e)), phase)
             ELSE merge_ids(append_held(x, last, near_zero), Tail(rest),
                            Held(Head(rest), e), phase)

\* the list is sorted in place, and the attribute is bound to a new list
consolidate_list(h, lid, phase) ==
    LET sorted == sort_ids_by_time(h.elems, h.lists[lid])
        h1 == [h EXCEPT !.lists[lid] = sorted]
        m == merge_ids([h |-> h1, ids |-> <<>>], Tail(sorted),
                       Held(Head(sorted), h.elems[Head(sorted)]), phase)
    IN  [h |-> new_list(m.h, m.ids), lid |-> Len(m.h.lists) + 1]

\* pulse_data._consolidate raises
obj_consolidate_raises(h, o) ==
    ~o.consolidated /\ Len(h.lists[o.lists[Field("pulse_deltas")]]) = 1

\* pulse_data._consolidate (when it does not raise)
obj_consolidate(x) ==
    LET lid == x.o.lists[Field("pulse_deltas")] IN
    IF x.o.consolidated THEN x
    ELSE IF Len(x.h.lists[lid]) > 1
    THEN LET c == consolidate_list(x.h, lid, FALSE)
         IN  [o |-> [x.o EXCEPT !.lists[Field("pulse_deltas")] = c.lid,
                                !.consolidated = TRUE],
              h |-> c.h]
    ELSE [o |-> [x.o EXCEPT !.consolidated = TRUE], h |-> x.h]

\* pulse_data._consolidate_phase_shifts
obj_consolidate_phase_shifts(x) ==
    LET lid == x.o.lists[Field("phase_shifts")] IN
    IF x.o.phase_shifts_consolidated THEN x
    ELSE IF Len(x.h.lists[lid]) > 0
    THEN LET c == consolidate_list(x.h, lid, TRUE)
         IN  [o |-> [x.o EXCEPT !.lists[Field("phase_shifts")] = c.lid,
                                !.phase_shifts_consolidated = TRUE],
              h |-> c.h]
    ELSE [o |-> [x.o EXCEPT !.phase_shifts_consolidated = TRUE], h |-> x.h]

\* __copy__ with my_copy.phase_shifts = self.phase_shifts: the list is shared
copy_phase_shifts_shared(h, lid) == [h |-> h, lid |-> lid]

\* my_copy.phase_shifts = copy.copy(self.phase_shifts)
copy_phase_shifts(h, lid) == [h |-> copy_list(h, lid), lid |-> Len(h.lists) + 1]

\* the lists of my_copy for lists n down to 1: copy.deepcopy for the deltas,
\* the pulses and the chirps, copy.copy for the phase shifts
RECURSIVE copy_fields(_, _, _, _)
copy_fields(h, src, my_copy, n) ==
    IF n = 0 THEN [h |-> h, o |-> my_copy]
    ELSE LET x == copy_fields(h, src, my_copy, n - 1)
             c == IF ListFields[n] = "phase_shifts"
                  THEN copy_phase_shifts(x.h, src.lists[n])
                  ELSE [h |-> deepcopy_list(x.h, src.lists[n]),
                        lid |-> Len(x.h.lists) + 1]
         IN  [h |-> c.h, o |-> [x.o EXCEPT !.lists[n] = c.lid]]

\* pulse_data.__copy__ (when _consolidate does not raise): self after the
\* call, the copy, and the heap
obj_copy(h, self) ==
    LET n == new_pulse_data(h)
        c == IF self.has_data THEN obj_consolidate([o |-> self, h |-> n.h])
             ELSE [o |-> self, h |-> n.h]
        f == IF self.has_data THEN copy_fields(c.h, c.o, n.o, Len(ListFields))
             ELSE [h |-> c.h, o |-> n.o]
    IN  [self |-> c.o,
         my_copy |-> [f.o EXCEPT !.has_data = c.o.has_data,
                                 !.start_time = c.o.start_time,
                                 !.end_time = c.o.end_time,
                                 !.consolidated = c.o.consolidated,
                                 !.phase_shifts_consolidated = c.o.phase_shifts_consolidated],
         h |-> f.h]

ObjectNames == {"a", "b", "c"}

ObjOp(op, self, other, raised, n) ==
    [op |-> op, self |-> self, other |-> other, raised |-> raised, n |-> n]

\* an operation on the object self has run
ObjStep(op, self, other, x, raised) ==
    /\ obj_op.n < MaxObjOps
    /\ objects' = [objects EXCEPT ![self] = x.o]
    /\ heap' = x.h
    /\ obj_op' = ObjOp(op, self, other, raised, obj_op.n + 1)
    /\ UNCHANGED <<tl_vars, seg_vars, agg_vars, up_vars, cache_vars>>

Obj(name) == [o |-> objects[name], h |-> heap]

object_add_block(name, start, stop, amplitude) ==
    /\ name \in DOMAIN objects
    /\ ObjStep("add_block", name, name, obj_add_block(Obj(name), start, stop, amplitude), FALSE)

object_add_sin(name, start, stop, amplitude) ==
    /\ name \in DOMAIN objects
    /\ ObjStep("add_sin", name, name,
               obj_add_MW_data(Obj(name), pulse_element(start, stop, amplitude)), FALSE)

object_add_chirp(name, start, stop, amplitude) ==
    /\ name \in DOMAIN objects
    /\ ObjStep("add_chirp", name, name,
               obj_add_chirp(Obj(name), pulse_element(start, stop, amplitude)), FALSE)

object_add_phase_shift(name, t, phase) ==
    /\ name \in DOMAIN objects
    /\ ObjStep("add_phase_shift", name, name,
               obj_add_phase_shift(Obj(name), PhaseShift(t, phase)), FALSE)

object_wait(name, time) ==
    /\ name \in DOMAIN objects
    /\ ObjStep("wait", name, name, obj_wait(Obj(name), time), FALSE)

\* pulse_data.append(other) on another object
object_append(self, other) ==
    /\ self \in DOMAIN objects /\ other \in DOMAIN objects /\ self # other
    /\ ObjStep("append", self, other,
               obj_add_data(heap, objects[self], objects[other], 0 - 1), FALSE)

\* a call of _consolidate (as made by _pre_process and __mul__)
object_consolidate(name) ==
    /\ name \in DOMAIN objects
    /\ IF obj_consolidate_raises(heap, objects[name])
       THEN ObjStep("consolidate", name, name, Obj(name), TRUE)
       ELSE ObjStep("consolidate", name, name, obj_consolidate(Obj(name)), FALSE)

\* a call of _consolidate_phase_shifts (as made by get_data_elements)
object_consolidate_phase_shifts(name) ==
    /\ name \in DOMAIN objects
    /\ ObjStep("consolidate_phase_shifts", name, name,
               obj_consolidate_phase_shifts(Obj(name)), FALSE)

\* copy.copy(self): my_copy becomes the object named name
object_copy(self, name) ==
    /\ obj_op.n < MaxObjOps
    /\ self \in DOMAIN objects /\ name \in ObjectNames \ DOMAIN objects
    /\ IF objects[self].has_data /\ obj_consolidate_raises(heap, objects[self])
       THEN /\ obj_op' = ObjOp("copy", self, self, TRUE, obj_op.n + 1)
            /\ UNCHANGED <<objects, heap>>
       ELSE LET c == obj_copy(heap, objects[self])
            IN  /\ objects' = [n \in DOMAIN objects \cup {name} |->
                                  IF n = name THEN c.my_copy
                                  ELSE IF n = self THEN c.self ELSE objects[n]]
                /\ heap' = c.h
                /\ obj_op' = ObjOp("copy", self, name, FALSE, obj_op.n + 1)
    /\ UNCHANGED <<tl_vars, seg_vars, agg_vars, up_vars, cache_vars>>

\* the object a after the additions of a start: nothing, a block, a block
\* and two phase shifts at one time, a pulse and a negative wait
InitialObjects ==
    LET a == new_pulse_data(EmptyHeap)
    IN  { a,
          obj_add_block(a, 0, 2, 1),
          obj_add_phase_shift(obj_add_phase_shift(obj_add_block(a, 1, 2, 1),
                              PhaseShift(1, 1)), PhaseShift(1, 2)),
          obj_wait(obj_add_MW_data(a, pulse_element(0, 2, 1)), 0 - 3) }

InitObjects ==
    /\ \E a \in InitialObjects :
          LET b == new_pulse_data(a.h)
          IN  /\ objects = [n \in {"a", "b"} |-> IF n = "a" THEN a.o ELSE b.o]
              /\ heap = b.h
    /\ obj_op = ObjOp("init", "a", "a", FALSE, 0)
    /\ TimelineIdle
    /\ SegmentsIdle
    /\ awg_channels = <<>> /\ channels = <<>> /\ job = <<>> /\ upload_info = <<>>
    /\ segments = <<>> /\ build_pc = "idle" /\ n_awg = 0
    /\ MarkersIdle
    /\ InterpolationIdle
    /\ SequencerIdle
    /\ CacheIdle

NextObjects ==
    \/ \E name \in ObjectNames : object_add_block(name, 0, 1, 1)
    \/ \E name \in ObjectNames : object_add_sin(name, 0, 1, 1)
    \/ \E name \in ObjectNames : object_add_chirp(name, 0, 1, 1)
    \/ \E name \in ObjectNames, phase \in {0 - 1, 1} : object_add_phase_shift(name, 1, phase)
    \/ \E name \in ObjectNames, time \in {0 - 1, 1} : object_wait(name, time)
    \/ \E self \in ObjectNames, other \in ObjectNames : object_append(self, other)
    \/ \E name \in ObjectNames : object_consolidate(name)
    \/ \E name \in ObjectNames : object_consolidate_phase_shifts(name)
    \/ \E self \in ObjectNames : object_copy(self, "c")

SpecObjects == InitObjects /\ [][NextObjects]_vars

\* the event lists and the end time of an object
EventsOf(h, o) ==
    [pulse_deltas |-> Values(h, o.lists[Field("pulse_deltas")]),
     MW_pulse_data |-> Values(h, o.lists[Field("MW_pulse_data")]),
     custom_pulse_data |-> Values(h, o.lists[Field("custom_pulse_data")]),
     phase_shifts |-> Values(h, o.lists[Field("phase_shifts")]),
     chirp_data |-> Values(h, o.lists[Field("chirp_data")]),
     end_time |-> o.end_time]

\* element e is element d moved by t: every time of it is t later, the rest
\* is the same
MovedBy(e, d, t) ==
    /\ DOMAIN e = DOMAIN d
    /\ \A k \in DOMAIN d :
          e[k] = IF k \in {"time", "start", "stop"} THEN d[k] + t ELSE d[k]

\* list after is list before followed by the elements of added moved by t
ExtendedBy(after, before, added, t) ==
    /\ Len(after) = Len(before) + Len(added)
    /\ SubSeq(after, 1, Len(before)) = before
    /\ \A i \in DOMAIN added : MovedBy(after[Len(before) + i], added[i], t)

\* what append(other) is to do on a step that runs it
AppendEffect ==
    LET self == obj_op'.self
        other == obj_op'.other
        before == EventsOf(heap, objects[self])
        added == EventsOf(heap, objects[other])
        after == EventsOf(heap', objects'[self])
    IN  /\ \A f \in DOMAIN before \ {"end_time"} :
              ExtendedBy(after[f], before[f], added[f], before.end_time)
        /\ after.end_time = before.end_time + added.end_time
        /\ EventsOf(heap', objects'[other]) = added

\* C21: append(other) adds to this timeline a copy of every element of other
\* moved by this timeline's end_time as it was before the call, sets end_time
\* to that earlier end_time plus other's total time, and leaves other unchanged
C21_AppendShiftsAndExtends ==
    [][obj_op'.op = "append" => AppendEffect]_vars

\* the same for every other whose total time is not negative
AppendOfNonNegativeTime ==
    [][(obj_op'.op = "append" /\ objects[obj_op'.other].end_time >= 0)
            => AppendEffect]_vars

\* C22: once a timeline is copied, an operation on the copy never changes the
\* event lists or the end_time of the original, and an operation on the
\* original never changes those of the copy
C22_CopyIsIndependent ==
    [][("c" \in DOMAIN objects)
        => \A n \in DOMAIN objects :
              (n # obj_op'.self /\ (n = "c" \/ obj_op'.self = "c"))
                  => EventsOf(heap', objects'[n]) = EventsOf(heap, objects[n])]_vars

\* the copy c of a shares the two phase shift objects of a; the phase shifts
\* of c were consolidated into one, and those of a are as they were
C22_Witness ==
    /\ "c" \in DOMAIN objects
    /\ obj_op = ObjOp("consolidate_phase_shifts", "c", "c", FALSE, 2)
    /\ EventsOf(heap, objects["c"]).phase_shifts = <<PhaseShift(1, 3)>>
    /\ EventsOf(heap, objects["a"]).phase_shifts = <<PhaseShift(1, 1), PhaseShift(1, 2)>>

(***************************************************************************)
(* PulsarUploader.jobs and the sequencer's upload, play and release        *)
(***************************************************************************)
\* a Job object of the job list; the objects are told apart by their place
Job(seq_id, index) == [seq_id |-> seq_id, index |-> index, released |-> FALSE]

\* job_list.remove(self) for the job at place i
list_remove(list, i) ==
    [k \in 1..(Len(list) - 1) |-> IF k < i THEN list[k] ELSE list[k + 1]]

\* Job.release without the removal from job_list
Job_release_keep(jobs, i) == [jobs EXCEPT ![i].released = TRUE]

\* Job.release of the job at place i of the list: released is set, and the
\* job is removed from the list
Job_release(jobs, i) ==
    IF jobs[i].released THEN jobs
    ELSE list_remove(Job_release_keep(jobs, i), i)

\* the loop of release_memory: "for job in self.jobs" reads position i of the
\* list as it is at that moment, while release removes jobs from the list
RECURSIVE release_memory_loop(_, _, _, _)
release_memory_loop(jobs, i, seq_id, index) ==
    IF i > Len(jobs) THEN jobs
    ELSE LET a_job == jobs[i] IN
         IF seq_id = None \/ (a_job.seq_id = seq_id /\ (index = None \/ a_job.index = index))
         THEN release_memory_loop(Job_release(jobs, i), i + 1, seq_id, index)
         ELSE release_memory_loop(jobs, i + 1, seq_id, index)

\* PulsarUploader.release_memory(seq_id, index)
release_memory(jobs, seq_id, index) == release_memory_loop(jobs, 1, seq_id, index)

\* PulsarUploader.release_jobs
release_jobs(jobs) == release_memory_loop(jobs, 1, None, None)

\* create_job without the release of the old job of the index
create_job_keep_old(jobs, index, seq_id) ==
    [jobs |-> jobs, new_job |-> Job(seq_id, index)]

\* PulsarUploader.create_job: the job list after it, and the new Job
create_job(jobs, index, seq_id) ==
    LET released == release_memory(jobs, seq_id, index)
    IN  [jobs |-> released, new_job |-> Job(seq_id, index)]

\* PulsarUploader.add_upload_job: the job is in the list before build runs
add_upload_job(jobs, new_job) == Append(jobs, new_job)

\* PulsarUploader.__get_job: position of the job found, 0 when it raises
get_job(jobs, seq_id, index) ==
    LET found == {i \in DOMAIN jobs : /\ jobs[i].seq_id = seq_id
                                      /\ jobs[i].index = index
                                      /\ ~jobs[i].released}
    IN  IF found = {} THEN 0 ELSE CHOOSE i \in found : \A k \in found : i <= k

\* the errors an attempt can end with, by the text looked for in them
Errors == {"(-8033)", "RT EXEC COMMAND UNDERFLOW", "FORCED STOP", "other"}
Outcomes == {"ok"} \cup Errors

\* PulsarUploader.play with the release of the job left out
uploader_play_keep(jobs, seq_id, index, release_job, outcome) ==
    LET i == get_job(jobs, seq_id, index)
    IN  IF i = 0 THEN [jobs |-> jobs, started |-> FALSE, error |-> "ValueError"]
        ELSE [jobs |-> jobs, started |-> TRUE,
              error |-> IF outcome = "ok" THEN "" ELSE outcome]

\* PulsarUploader.play: the job list after it, whether the program was
\* started, and the error raised ("" when it returns)
uploader_play(jobs, seq_id, index, release_job, outcome) ==
    LET i == get_job(jobs, seq_id, index)
    IN  IF i = 0 THEN [jobs |-> jobs, started |-> FALSE, error |-> "ValueError"]
        ELSE IF outcome # "ok" THEN [jobs |-> jobs, started |-> TRUE, error |-> outcome]
        ELSE [jobs |-> IF release_job THEN Job_release(jobs, i) ELSE jobs,
              started |-> TRUE, error |-> ""]

\* a _retry_upload that asks for a new pass after every error
_retry_upload_any(error) == error # ""

\* sequencer._retry_upload
_retry_upload(error) == error = "(-8033)"

\* sequencer._retry_play
_retry_play(error) == error \in {"RT EXEC COMMAND UNDERFLOW", "FORCED STOP"}

\* the sequences made by the sequence builder, and the indices of their sweep
SequenceIds == {1, 2}
SweepIndices == {0, 1}

\* the sequencers' calls: pc is the place of the call in progress, op, id and
\* index the last call, outcome and error how it ended; replay tells a play
\* that follows a play of the same index with release that returned
NoCall ==
    [pc |-> "idle", op |-> "none", id |-> 0, index |-> 0, release |-> FALSE,
     n_retries |-> 0, play_n_retries |-> 0, upload_calls |-> 0, play_calls |-> 0,
     outcome |-> "none", error |-> "", started |-> FALSE,
     replay |-> FALSE, closed |-> {}]

\* a call that returned, or raised error
Ended(call, error) ==
    [call EXCEPT !.pc = "idle", !.error = error,
                 !.n_retries = 0, !.play_n_retries = 0,
                 !.outcome = IF error = "" THEN "returned" ELSE "raised"]

UploaderStep(jobs, call) ==
    /\ uploader_jobs' = jobs
    /\ sequencer' = call
    /\ UNCHANGED <<tl_vars, seg_vars, agg_vars, obj_vars, cache_vars>>

\* sequencer.upload(index) up to its loop
upload(id, index) ==
    /\ sequencer.pc = "idle"
    /\ id \notin sequencer.closed
    /\ UploaderStep(uploader_jobs,
                    [NoCall EXCEPT !.pc = "upload", !.op = "upload", !.id = id,
                                   !.index = index, !.n_retries = 2,
                                   !.closed = sequencer.closed])

\* one pass of the loop of sequencer.upload, also when play called it:
\* create_job, add_upload_job, and the handling of the error of the build
upload_attempt(outcome) ==
    /\ sequencer.pc \in {"upload", "play_upload"}
    /\ LET created == create_job(uploader_jobs, sequencer.index, sequencer.id)
           jobs == add_upload_job(created.jobs, created.new_job)
           error == IF outcome = "ok" THEN "" ELSE outcome
           call == [sequencer EXCEPT !.upload_calls = @ + 1, !.error = error]
       IN  IF error = ""
           THEN IF sequencer.pc = "upload"
                THEN UploaderStep(jobs, Ended(call, ""))
                ELSE UploaderStep(jobs, [call EXCEPT !.pc = "play"])
           ELSE IF sequencer.n_retries <= 0
           THEN UploaderStep(jobs, Ended(call, error))
           ELSE IF _retry_upload(error)
           THEN UploaderStep(jobs, [call EXCEPT !.n_retries = @ - 1])
           ELSE UploaderStep(jobs, Ended(call, error))

\* sequencer.play(index, release) up to its loop
play(id, index, release) ==
    /\ sequencer.pc = "idle"
    /\ id \notin sequencer.closed
    /\ UploaderStep(uploader_jobs,
                    [NoCall EXCEPT !.pc = "play", !.op = "play", !.id = id,
                                   !.index = index, !.release = release,
                                   !.play_n_retries = 2,
                                   !.replay = /\ sequencer.op = "play"
                                              /\ sequencer.outcome = "returned"
                                              /\ sequencer.release
                                              /\ sequencer.id = id
                                              /\ sequencer.index = index,
                                   !.closed = sequencer.closed])

\* one pass of the loop of sequencer.play: uploader.play and the handling of
\* its error
play_attempt(outcome) ==
    /\ sequencer.pc = "play"
    /\ LET played == uploader_play(uploader_jobs, sequencer.id, sequencer.index,
                                   sequencer.release, outcome)
           call == [sequencer EXCEPT !.play_calls = @ + 1,
                                     !.error = played.error,
                                     !.started = played.started]
       IN  IF played.error = ""
           THEN UploaderStep(played.jobs, Ended(call, ""))
           ELSE IF sequencer.play_n_retries <= 0
           THEN UploaderStep(played.jobs, Ended(call, played.error))
           ELSE IF _retry_play(played.error)
           THEN UploaderStep(played.jobs, [call EXCEPT !.play_n_retries = @ - 1])
           ELSE IF _retry_upload(played.error)
           THEN UploaderStep(played.jobs,
                             [call EXCEPT !.play_n_retries = @ - 1,
                                          !.pc = "play_upload",
                                          !.n_retries = 2, !.upload_calls = 0])
           ELSE UploaderStep(played.jobs, Ended(call, played.error))

\* a call that only releases jobs
Released(op, id, index, jobs) ==
    UploaderStep(jobs, Ended([NoCall EXCEPT !.op = op, !.id = id, !.index = index,
                                            !.closed = sequencer.closed], ""))

\* sequencer.release_memory(index), index None for all indices
sequencer_release_memory(id, index) ==
    /\ sequencer.pc = "idle"
    /\ id \notin sequencer.closed
    /\ Released("release_memory", id, index, release_memory(uploader_jobs, id, index))

\* sequencer.close of a sequencer with a sequence
close(id) ==
    /\ sequencer.pc = "idle"
    /\ id \notin sequencer.closed
    /\ UploaderStep(release_memory(uploader_jobs, id, None),
                    Ended([NoCall EXCEPT !.op = "close", !.id = id, !.index = None,
                                         !.closed = sequencer.closed \cup {id}], ""))

\* uploader.release_memory() without arguments
uploader_release_memory ==
    /\ sequencer.pc = "idle"
    /\ Released("release_all", None, None, release_memory(uploader_jobs, None, None))

\* uploader.release_jobs()
uploader_release_jobs ==
    /\ sequencer.pc = "idle"
    /\ Released("release_jobs", None, None, release_jobs(uploader_jobs))

InitUploader ==
    /\ TimelineIdle
    /\ SegmentsIdle
    /\ awg_channels = <<>> /\ channels = <<>> /\ job = <<>> /\ upload_info = <<>>
    /\ segments = <<>> /\ build_pc = "idle" /\ n_awg = 0
    /\ MarkersIdle
    /\ InterpolationIdle
    /\ ObjectsIdle
    /\ CacheIdle
    /\ uploader_jobs = <<>>
    /\ sequencer = NoCall

NextUploader ==
    \/ \E id \in SequenceIds, index \in SweepIndices : upload(id, index)
    \/ \E outcome \in Outcomes : upload_attempt(outcome)
    \/ \E id \in SequenceIds, index \in SweepIndices, release \in BOOLEAN :
           play(id, index, release)
    \/ \E outcome \in Outcomes : play_attempt(outcome)
    \/ \E id \in SequenceIds, index \in SweepIndices \cup {None} :
           sequencer_release_memory(id, index)
    \/ \E id \in SequenceIds : close(id)
    \/ uploader_release_memory
    \/ uploader_release_jobs

SpecUploader == InitUploader /\ [][NextUploader]_vars

\* the jobs of the list that belong to sequence id
JobsOf(id) == {i \in DOMAIN uploader_jobs : uploader_jobs[i].seq_id = id}

\* C23: after release_memory of a sequence without index, and after close,
\* the job list holds no job of that sequence; after the uploader's
\* release_memory without arguments and after release_jobs the list is empty
C23_ReleaseEmptiesJobList ==
    sequencer.pc = "idle" =>
        /\ (sequencer.op \in {"release_memory", "close"} /\ sequencer.index = None)
               => JobsOf(sequencer.id) = {}
        /\ sequencer.op \in {"release_all", "release_jobs"} => uploader_jobs = <<>>

\* a release of one index leaves no job of that index
ReleaseOfOneIndex ==
    (sequencer.pc = "idle" /\ sequencer.op = "release_memory" /\ sequencer.index # None)
        => \A i \in JobsOf(sequencer.id) : uploader_jobs[i].index # sequencer.index

\* C27: between the sequencer's calls the job list holds at most one job for
\* each (sequence id, index), and no released job
C27_OneJobPerIndex ==
    sequencer.pc = "idle" =>
        /\ \A i, k \in DOMAIN uploader_jobs :
               (/\ uploader_jobs[i].seq_id = uploader_jobs[k].seq_id
                /\ uploader_jobs[i].index = uploader_jobs[k].index) => i = k
        /\ \A i \in DOMAIN uploader_jobs : ~uploader_jobs[i].released

\* an upload that failed while building and was retried, next to other jobs
C27_Witness ==
    /\ sequencer.pc = "idle"
    /\ sequencer.op = "upload"
    /\ sequencer.upload_calls = 3
    /\ sequencer.outcome = "returned"
    /\ Len(uploader_jobs) = 4

\* a pass of the loop of sequencer.play: one call of uploader.play
PlayCall == sequencer.pc = "play" /\ sequencer'.play_calls = sequencer.play_calls + 1

\* C28: uploader.play starts playback only if the list holds a job of that
\* sequence and index that is not released; otherwise it raises ValueError,
\* as it does for an index played with release and not uploaded since
C28_PlayNeedsJob ==
    [][PlayCall =>
        LET live == {i \in JobsOf(sequencer.id) :
                        /\ uploader_jobs[i].index = sequencer.index
                        /\ ~uploader_jobs[i].released}
        IN  /\ sequencer'.started <=> live # {}
            /\ ~sequencer'.started =>
                  /\ sequencer'.error = "ValueError"
                  /\ sequencer'.outcome = "raised"
                  /\ sequencer'.pc = "idle"
            /\ (sequencer.replay /\ sequencer.play_calls = 0)
                  => ~sequencer'.started]_vars

\* a second play of an index played with release raised ValueError
C28_Witness ==
    /\ sequencer.pc = "idle"
    /\ sequencer.op = "play"
    /\ sequencer.error = "ValueError"
    /\ sequencer.replay

\* a pass of the loop of upload or of play that ended with an error
FailedUploadAttempt ==
    /\ sequencer.pc \in {"upload", "play_upload"}
    /\ sequencer'.upload_calls = sequencer.upload_calls + 1
    /\ sequencer'.error # ""

FailedPlayAttempt == PlayCall /\ sequencer'.error # ""

\* the errors after which upload, and play, try again
UploadRetryable == {"(-8033)"}
PlayRetryable == {"RT EXEC COMMAND UNDERFLOW", "FORCED STOP", "(-8033)"}

\* a failed pass is followed by another pass only after a retryable error,
\* and otherwise the call raises the error of the pass
RetryRule ==
    /\ FailedUploadAttempt =>
          IF sequencer'.pc = "idle"
          THEN sequencer'.outcome = "raised"
          ELSE sequencer'.pc = sequencer.pc /\ sequencer'.error \in UploadRetryable
    /\ (FailedUploadAttempt /\ sequencer'.error \notin UploadRetryable)
          => sequencer'.pc = "idle"
    /\ FailedPlayAttempt =>
          IF sequencer'.pc = "idle"
          THEN sequencer'.outcome = "raised"
          ELSE sequencer'.error \in PlayRetryable
    /\ (FailedPlayAttempt /\ sequencer'.error \notin PlayRetryable)
          => sequencer'.pc = "idle"

\* the sequencer's thread runs the loop of a call in progress
SpecSequencer ==
    /\ SpecUploader
    /\ WF_vars(\E outcome \in Outcomes : upload_attempt(outcome))
    /\ WF_vars(\E outcome \in Outcomes : play_attempt(outcome))

\* C29: upload and play terminate: each calls the uploader at most 3 times
\* for its own operation, tries again only after a retryable error, and
\* raises every other error at the pass that met it
C29_UploadAndPlayTerminate ==
    /\ [](sequencer.upload_calls <= 3 /\ sequencer.play_calls <= 3)
    /\ [][RetryRule]_vars
    /\ (sequencer.pc # "idle") ~> (sequencer.pc = "idle")

\* a play that returned after three calls of uploader.play and an upload of
\* its own
C29_Witness ==
    /\ sequencer.pc = "idle"
    /\ sequencer.op = "play"
    /\ sequencer.outcome = "returned"
    /\ sequencer.play_calls = 3
    /\ sequencer.upload_calls >= 2

(***************************************************************************)
(* sequencer.reorder_sweep_axis                                            *)
(***************************************************************************)
\* the sweep axes of the sequence of the test, and the longest new_order
n_params == 3
MaxOrderLen == 4
Ellipsis == 0 - 1
Axes == 0..(n_params - 1)

\* list.remove(x) of a list of integers: the first x is removed
RECURSIVE remove_value(_, _)
remove_value(list, x) ==
    IF list = <<>> THEN <<>>
    ELSE IF Head(list) = x THEN Tail(list)
    ELSE <<Head(list)>> \o remove_value(Tail(list), x)

InList(list, x) == \E k \in DOMAIN list : list[k] = x

\* the loop over new_order: insert names the list that "insert" is bound to,
\* and "insert == tail" compares the two lists by value
RECURSIVE reorder_loop(_, _)
reorder_loop(st, new_order) ==
    IF new_order = <<>> \/ st.error # "" THEN st
    ELSE LET i == Head(new_order)
             inserted == IF st.insert = "head" THEN st.head ELSE st.tail
         IN  IF i = Ellipsis
             THEN IF inserted = st.tail
                  THEN [st EXCEPT !.error = "Only 1 Ellipsis is allowed in order"]
                  ELSE reorder_loop([st EXCEPT !.insert = "tail"], Tail(new_order))
             ELSE IF ~InList(st.initial_indexes, i)
             THEN [st EXCEPT !.error = "ValueError"]
             ELSE reorder_loop(
                      [st EXCEPT !.head = IF st.insert = "head" THEN Append(@, i) ELSE @,
                                 !.tail = IF st.insert = "tail" THEN Append(@, i) ELSE @,
                                 !.initial_indexes = remove_value(@, i)],
                      Tail(new_order))

\* reorder_sweep_axis: the new params, each named by its place in
\* _original_params, and the error raised
reorder_params(params, new_order) ==
    LET st == reorder_loop([head |-> <<>>, tail |-> <<>>, insert |-> "head",
                            initial_indexes |-> [k \in 1..Len(params) |-> k - 1],
                            error |-> ""], new_order)
    IN  IF st.error # "" THEN [params |-> params, error |-> st.error]
        ELSE [params |-> st.head \o st.initial_indexes \o st.tail, error |-> ""]

\* the lists given as new_order
RECURSIVE OrdersOfLen(_)
OrdersOfLen(n) ==
    IF n = 0 THEN {<<>>}
    ELSE {Append(o, x) : o \in OrdersOfLen(n - 1), x \in Axes \cup {Ellipsis}}

Orders == UNION {OrdersOfLen(n) : n \in 0..MaxOrderLen}

\* sequencer.reorder_sweep_axis(new_order)
reorder_sweep_axis(new_order) ==
    /\ sequencer.op \in {"init", "reorder_sweep_axis"}
    /\ LET r == reorder_params(sequencer.params, new_order)
       IN  sequencer' = [op |-> "reorder_sweep_axis", new_order |-> new_order,
                         params |-> r.params, error |-> r.error]
    /\ UNCHANGED <<uploader_jobs, tl_vars, seg_vars, agg_vars, obj_vars, cache_vars>>

InitReorder ==
    /\ TimelineIdle
    /\ SegmentsIdle
    /\ awg_channels = <<>> /\ channels = <<>> /\ job = <<>> /\ upload_info = <<>>
    /\ segments = <<>> /\ build_pc = "idle" /\ n_awg = 0
    /\ MarkersIdle
    /\ InterpolationIdle
    /\ ObjectsIdle
    /\ CacheIdle
    /\ uploader_jobs = <<>>
    /\ sequencer = [op |-> "init", new_order |-> <<>>,
                    params |-> [k \in 1..n_params |-> k - 1], error |-> ""]

NextReorder == \E new_order \in Orders : reorder_sweep_axis(new_order)

SpecReorder == InitReorder /\ [][NextReorder]_vars

\* the places of the Ellipsis in new_order
EllipsisAt(new_order) == {k \in DOMAIN new_order : new_order[k] = Ellipsis}

\* new_order names distinct axes, between them at most one Ellipsis
ValidOrder(new_order) ==
    /\ Cardinality(EllipsisAt(new_order)) <= 1
    /\ \A k, l \in DOMAIN new_order :
           (new_order[k] = new_order[l] /\ new_order[k] # Ellipsis) => k = l

\* the axes no entry of new_order names, in their original order
Unlisted(new_order) ==
    SelectSeq([k \in 1..n_params |-> k - 1], LAMBDA a : ~InList(new_order, a))

\* the order asked for: the axes before the Ellipsis, the unlisted ones, the
\* axes after it
AskedOrder(new_order) ==
    LET at == IF EllipsisAt(new_order) = {} THEN Len(new_order) + 1
              ELSE CHOOSE k \in EllipsisAt(new_order) : TRUE
    IN  SubSeq(new_order, 1, at - 1) \o Unlisted(new_order)
            \o SubSeq(new_order, at + 1, Len(new_order))

\* C24: a new_order of distinct axes with at most one Ellipsis, at any place,
\* sets params to the order asked for, and "Only 1 Ellipsis is allowed" is
\* raised only for more than one Ellipsis
C24_ReorderSweepAxis ==
    sequencer.op = "reorder_sweep_axis" =>
        /\ ValidOrder(sequencer.new_order) =>
              /\ sequencer.error = ""
              /\ sequencer.params = AskedOrder(sequencer.new_order)
        /\ sequencer.error = "Only 1 Ellipsis is allowed in order"
              => Cardinality(EllipsisAt(sequencer.new_order)) > 1

\* with an axis before the Ellipsis, or without Ellipsis, the claim holds
ReorderWithLeadingAxis ==
    (/\ sequencer.op = "reorder_sweep_axis"
     /\ ValidOrder(sequencer.new_order)
     /\ 1 \notin EllipsisAt(sequencer.new_order))
        => /\ sequencer.error = ""
           /\ sequencer.params = AskedOrder(sequencer.new_order)

(***************************************************************************)
(* The waveform cache (data_generic.py: parent_data.render).  The cache is *)
(* a recency-ordered list of entries <<key, data>>, the newest last.  The  *)
(* timeline rendered holds blocks only; sample rates are in MSa/s.         *)
(***************************************************************************)
\* size of the cache set by set_waveform_cache_size; 0 disables the cache
MaxCacheSize == 2
\* largest number of render calls in one run
MaxRenders == 3
CacheSampleRates == {1000, 2000}
CacheAmplitudes == {0 - 1, 1}

\* the data of a new cache entry (None)
NoCacheData == [sample_rate |-> None, waveform |-> <<>>]

\* the place of key in the entries, 0 when the cache holds no entry of it
EntryOf(entries, key) ==
    IF \E k \in DOMAIN entries : entries[k].key = key
    THEN CHOOSE k \in DOMAIN entries : entries[k].key = key
    ELSE 0

\* LruCache.__getitem__: the entry of key becomes the newest; a new entry
\* without data is made for an unknown key, and the oldest entry leaves a
\* full cache
lru_get(entries, key, max_size) ==
    LET k == EntryOf(entries, key)
        others == SelectSeq(entries, LAMBDA e : e.key # key)
        kept == IF Len(others) >= max_size THEN Tail(others) ELSE others
    IN  IF k # 0 THEN Append(others, entries[k])
        ELSE Append(kept, [key |-> key, data |-> NoCacheData])

\* the waveform of pulse_data._render for a timeline of blocks: sample pt is
\* element pt + 1
_render(d, sample_rate) ==
    LET p == pre_process_at(d, sample_rate)
        t_tot_pt == ((p.end_time - p.start_time) * sample_rate) \div 1000 + 1
        t_pt == [i \in DOMAIN p.times |-> (p.times[i] * sample_rate) \div 1000]
    IN  [k \in 1..t_tot_pt |->
            LET pt == k - 1
                at == {i \in 1..(Len(t_pt) - 1) : t_pt[i] <= pt /\ pt < t_pt[i + 1]}
            IN  IF at = {} THEN 0 ELSE p.amplitudes[CHOOSE i \in at : TRUE]]

\* the data of a cache entry written by render
CacheData(sample_rate, waveform) == [sample_rate |-> sample_rate, waveform |-> waveform]

\* parent_data.render: the cache, the timeline and the waveform after it
cached_render(cache, d, sample_rate) ==
    LET cache_id == IF cache.cache_id = None THEN 1 ELSE cache.cache_id
        entries == lru_get(cache.entries, cache_id, cache.max_size)
        entry == entries[Len(entries)]
    IN  IF cache.max_size = 0
        THEN [cache |-> cache, data |-> pre_process_at(d, sample_rate),
              waveform |-> _render(d, sample_rate)]
        ELSE IF entry.data = NoCacheData \/ entry.data.sample_rate # sample_rate
        THEN [cache |-> [cache EXCEPT !.cache_id = cache_id,
                             !.entries = [entries EXCEPT ![Len(entries)].data =
                                              CacheData(sample_rate, _render(d, sample_rate))]],
              data |-> pre_process_at(d, sample_rate),
              waveform |-> _render(d, sample_rate)]
        ELSE [cache |-> [cache EXCEPT !.cache_id = cache_id, !.entries = entries],
              data |-> d, waveform |-> entry.data.waveform]

\* data.render(sample_rate) of the timeline
render_waveform(sample_rate) ==
    /\ waveform_cache.renders < MaxRenders
    /\ ~consolidate_raises(data)
    /\ LET r == cached_render(waveform_cache, data, sample_rate)
       IN  /\ data' = r.data
           /\ result' = Returned(r.waveform, <<>>)
           /\ waveform_cache' = [r.cache EXCEPT !.sample_rate = sample_rate,
                                                !.renders = @ + 1]
    /\ lastOp' = "render"
    /\ deltas_before' = data.pulse_deltas
    /\ UNCHANGED <<n_ops, seg_vars, agg_vars, obj_vars, up_vars, seg_channel>>

\* render of another data object: its entry enters the cache
render_other ==
    /\ waveform_cache.max_size > 0
    /\ waveform_cache.renders < MaxRenders
    /\ LET entries == lru_get(waveform_cache.entries, 2, waveform_cache.max_size)
       IN  waveform_cache' =
               [waveform_cache EXCEPT
                   !.renders = @ + 1,
                   !.entries = [entries EXCEPT ![Len(entries)].data =
                                    CacheData(1000, <<0>>)]]
    /\ lastOp' = "render_other"
    /\ UNCHANGED <<data, result, deltas_before, n_ops, seg_vars, agg_vars, obj_vars,
                   up_vars, seg_channel>>

\* parent_data.clear_waveform_cache
clear_waveform_cache ==
    /\ waveform_cache.max_size > 0
    /\ waveform_cache.entries # <<>>
    /\ waveform_cache' = [waveform_cache EXCEPT !.entries = <<>>]
    /\ lastOp' = "clear_waveform_cache"
    /\ UNCHANGED <<data, result, deltas_before, n_ops, seg_vars, agg_vars, obj_vars,
                   up_vars, seg_channel>>

\* an addition of a block to the timeline that is rendered
cache_add_block(start, stop, amplitude) ==
    /\ n_ops < MaxOps
    /\ data' = seg_add_block(data, start, stop, amplitude)
    /\ lastOp' = "add_block"
    /\ result' = Returned(0, <<>>)
    /\ deltas_before' = <<>>
    /\ n_ops' = n_ops + 1
    /\ UNCHANGED <<seg_vars, agg_vars, obj_vars, up_vars, cache_vars>>

\* parent_data.set_waveform_cache_size(size), then a new timeline
InitCache ==
    /\ TimelineIdle
    /\ SegmentsIdle
    /\ awg_channels = <<>> /\ channels = <<>> /\ job = <<>> /\ upload_info = <<>>
    /\ segments = <<>> /\ build_pc = "idle" /\ n_awg = 0
    /\ MarkersIdle
    /\ InterpolationIdle
    /\ ObjectsIdle
    /\ SequencerIdle
    /\ seg_channel = <<>>
    /\ \E size \in 0..MaxCacheSize :
          waveform_cache = [max_size |-> size, cache_id |-> None, entries |-> <<>>,
                            sample_rate |-> None, renders |-> 0]

NextCache ==
    \/ \E start \in Starts, amplitude \in CacheAmplitudes :
          \E stop \in (start + 1)..MaxTime : cache_add_block(start, stop, amplitude)
    \/ \E sample_rate \in CacheSampleRates : render_waveform(sample_rate)
    \/ render_other
    \/ clear_waveform_cache

SpecCache == InitCache /\ [][NextCache]_vars

\* C26: render with the waveform cache enabled returns the samples that
\* render without cache returns for the timeline as it is, after every
\* sequence of additions and render calls
C26_CachedRenderEqualsRender ==
    lastOp = "render" => result.value = _render(data, waveform_cache.sample_rate)

\* without cache, and at the first render of a timeline, the samples are
\* those of the timeline
RenderWithoutCache ==
    (lastOp = "render" /\ (waveform_cache.max_size = 0 \/ waveform_cache.renders = 1))
        => result.value = _render(data, waveform_cache.sample_rate)

(***************************************************************************)
(* has_data of a segment channel (segment_base.py, segment_acquisition.py) *)
(***************************************************************************)
\* the data elements of the channel (self.data.flat), and the reads of a run
NElements == 3
MaxReads == 3
Elements == 1..NElements

\* the first element of data.flat that has data, 0 when none has
first_with_data(elements) ==
    IF \E i \in DOMAIN elements : elements[i]
    THEN CHOOSE i \in DOMAIN elements :
             elements[i] /\ \A k \in 1..(i - 1) : ~elements[k]
    ELSE 0

\* segment_base.has_data: the channel after the read, and the value returned
segment_has_data(seg) ==
    IF ~seg._has_data /\ first_with_data(seg.data) # 0
    THEN [seg |-> [seg EXCEPT !._has_data = TRUE], value |-> TRUE]
    ELSE [seg |-> seg, value |-> FALSE]

\* segment_acquisition.has_data: the channel after the read, and the value
acquisition_has_data(seg) ==
    IF ~seg._has_data
    THEN IF first_with_data(seg.data) # 0
         THEN [seg |-> [seg EXCEPT !._has_data = TRUE], value |-> TRUE]
         ELSE [seg |-> seg, value |-> FALSE]
    ELSE [seg |-> seg, value |-> FALSE]

\* an addition to data element i: the element has data from then on
add_to_element(i) ==
    /\ seg_channel' = [seg_channel EXCEPT !.data[i] = TRUE, !.op = "add",
                                          !.value = FALSE]
    /\ seg_channel'.data # seg_channel.data
    /\ UNCHANGED <<tl_vars, seg_vars, agg_vars, obj_vars, up_vars, waveform_cache>>

\* a read of the property has_data
read_has_data ==
    /\ seg_channel.reads < MaxReads
    /\ LET r == IF seg_channel.kind = "segment_acquisition"
                THEN acquisition_has_data(seg_channel)
                ELSE segment_has_data(seg_channel)
       IN  seg_channel' = [r.seg EXCEPT !.op = "has_data", !.value = r.value,
                                        !.reads = @ + 1]
    /\ UNCHANGED <<tl_vars, seg_vars, agg_vars, obj_vars, up_vars, waveform_cache>>

\* a new segment channel: no element holds data
InitHasData ==
    /\ TimelineIdle
    /\ SegmentsIdle
    /\ awg_channels = <<>> /\ channels = <<>> /\ job = <<>> /\ upload_info = <<>>
    /\ segments = <<>> /\ build_pc = "idle" /\ n_awg = 0
    /\ MarkersIdle
    /\ InterpolationIdle
    /\ ObjectsIdle
    /\ SequencerIdle
    /\ waveform_cache = <<>>
    /\ \E kind \in {"segment_base", "segment_acquisition"} :
          seg_channel = [kind |-> kind, _has_data |-> FALSE,
                         data |-> [i \in Elements |-> FALSE],
                         op |-> "init", value |-> FALSE, reads |-> 0]

NextHasData ==
    \/ \E i \in Elements : add_to_element(i)
    \/ read_has_data

SpecHasData == InitHasData /\ [][NextHasData]_vars

\* C30: once a data element of the channel holds data, has_data returns True
\* on every call, however often it was read before
C30_HasDataStaysTrue ==
    (seg_channel.op = "has_data" /\ \E i \in Elements : seg_channel.data[i])
        => seg_channel.value

\* the read that finds the data returns True, and a channel without data
\* reads False
FirstReadOfData ==
    seg_channel.op = "has_data" =>
        /\ (seg_channel.reads = 1 /\ \E i \in Elements : seg_channel.data[i])
               => seg_channel.value
        /\ (\A i \in Elements : ~seg_channel.data[i]) => ~seg_channel.value

====
